---- MODULE Spec2Model ----
(***************************************************************************)
(* Model of the chat room session actor of henrychu04/chatting-app:        *)
(* class WebSocketHibernationServer (worker/index.ts) with its helpers     *)
(* sanitizeInput / validateMessage and the token verifier (worker/auth.ts).*)
(*                                                                         *)
(* Text values (message content, user names) are sequences of one-token    *)
(* strings; ids, IPs and frame types are TLA+ strings; times are integer   *)
(* milliseconds since the start of the run (Date.now() - t0).              *)
(***************************************************************************)
EXTENDS Integers, Sequences, FiniteSets, TLC

\* ------------------------------------------------------------------------
\* Program constants (worker/index.ts)
\* ------------------------------------------------------------------------
MAX_HISTORY == 100
MAX_MESSAGE_LENGTH == 1000
MAX_USERNAME_LENGTH == 30
MAX_CONNECTIONS_PER_IP == 5
PING_INTERVAL == 30000
PONG_TIMEOUT == 10000
MAX_RETRY_ATTEMPTS == 3
RATE_WINDOW == 60000
RATE_LIMIT == 10
BATCH_DELAY == 100
TOKEN_LIFETIME == 86400
RECONNECT_DELAY == 3000

\* ------------------------------------------------------------------------
\* Bounds of the model
\* ------------------------------------------------------------------------
MaxSockets == 2
MaxConnSockets == 1
MaxAccepted == 2
MaxInflight == 2
MaxTime == 101
MaxConnTime == 30000
MaxHealthTime == 150000
MaxRateAccepted == 12
MaxRateTime == 60201
MaxInputLen == 4
MaxClientSockets == 2
MaxClientMessages == 1
MaxRejectAccepted == 12
MaxOtherAccepted == 1
MaxRejectTime == 1
MaxBudgetTime == 90001
LengthMargin == 2

\* ------------------------------------------------------------------------
\* JavaScript values
\* ------------------------------------------------------------------------
\* `undefined` and NaN for numeric properties of a socket; `undefined` or an
\* absent field for string properties; null for timer handles.
Undef == -1
NaN == -2
UndefStr == "<undefined>"
Null == -1

IsNumber(x) == x >= 0

\* a - b > c in JavaScript: false as soon as an operand is undefined / NaN
JsMinusGt(a, b, c) == IsNumber(a) /\ IsNumber(b) /\ a - b > c
\* a >= b in JavaScript with a possibly undefined / NaN
JsGe(a, b) == IsNumber(a) /\ a >= b
\* x++ on a property: undefined++ and NaN++ both store NaN
JsIncrement(x) == IF IsNumber(x) THEN x + 1 ELSE NaN
\* x || d for strings: undefined and the empty string are falsy
JsOrStr(x, d) == IF x = UndefStr \/ x = "" THEN d ELSE x
\* x || d for text values: the empty text (or an absent field) is falsy
JsOrText(x, d) == IF x = <<>> THEN d ELSE x

\* ------------------------------------------------------------------------
\* sanitizeInput: sanitize-html with no allowed tag, then trim()
\* ------------------------------------------------------------------------
Letters == {"a", "b", "c"}
\* the no-break space U+00A0, which trim() removes like a blank
NoBreakSpace == "U+00A0"
Whitespace == {" ", NoBreakSpace}

\* Drop the rest of a tag: everything up to and including the next ">"; a
\* tag left open at the end of the input is dropped entirely.
SkipTag(s) ==
  IF \A i \in 1..Len(s) : s[i] # ">" THEN <<>>
  ELSE LET k == CHOOSE i \in 1..Len(s) : s[i] = ">" /\ \A j \in 1..(i - 1) : s[j] # ">"
       IN SubSeq(s, k + 1, Len(s))

\* the characters and character references the sanitizer rewrites
Rewritten == {"<", ">", "&", "&lt;", "&gt;", "&amp;", "&quot;", "&nbsp;"}

\* the length of the longest prefix of s that holds none of them
PlainPrefix(s) ==
  IF \A i \in 1..Len(s) : s[i] \notin Rewritten THEN Len(s)
  ELSE (CHOOSE i \in 1..Len(s) :
          s[i] \in Rewritten /\ \A j \in 1..(i - 1) : s[j] \notin Rewritten) - 1

\* The parser discards every tag ("<" followed by a letter or by "/") and
\* keeps the text between tags; the text is written back with & < > escaped
\* (entities of the input are decoded first, so &lt; &gt; &amp; come back
\* unchanged, while &quot; and &nbsp; come back as the characters they name).
\* Text without any of these is kept as it is, a stretch at a time.
RECURSIVE DiscardTags(_)
DiscardTags(s) ==
  IF s = <<>> THEN <<>>
  ELSE LET h == Head(s)
           t == Tail(s)
           n == PlainPrefix(s)
       IN IF h = "<"
          THEN IF t # <<>> /\ Head(t) \in Letters \cup {"/"}
               THEN DiscardTags(SkipTag(t))
               ELSE <<"&lt;">> \o DiscardTags(t)
          ELSE IF h \in {">", "&gt;"} THEN <<"&gt;">> \o DiscardTags(t)
          ELSE IF h \in {"&", "&amp;"} THEN <<"&amp;">> \o DiscardTags(t)
          ELSE IF h = "&lt;" THEN <<"&lt;">> \o DiscardTags(t)
          ELSE IF h = "&quot;" THEN <<"\"">> \o DiscardTags(t)
          ELSE IF h = "&nbsp;" THEN <<NoBreakSpace>> \o DiscardTags(t)
          ELSE SubSeq(s, 1, n) \o DiscardTags(SubSeq(s, n + 1, Len(s)))

RECURSIVE TrimStart(_)
TrimStart(s) ==
  IF s # <<>> /\ Head(s) \in Whitespace THEN TrimStart(Tail(s)) ELSE s

RECURSIVE TrimEnd(_)
TrimEnd(s) ==
  IF s # <<>> /\ s[Len(s)] \in Whitespace
  THEN TrimEnd(SubSeq(s, 1, Len(s) - 1))
  ELSE s

Trim(s) == TrimEnd(TrimStart(s))

\* (variant: the input is trimmed before it is sanitized, not after)
sanitizeInputTrimmingFirst(input) == DiscardTags(Trim(input))

sanitizeInput(input) == Trim(DiscardTags(input))

\* (variant: the comparison with the sanitized form is left out)
validateMessageUnsanitized(message, user) ==
  IF message = <<>> \/ user = <<>> THEN "Message and user are required"
  ELSE IF Len(message) > MAX_MESSAGE_LENGTH THEN "Message too long"
  ELSE IF Len(user) > MAX_USERNAME_LENGTH THEN "Username too long"
  ELSE ""

\* (variant: the lengths are compared with >= instead of >)
validateMessageOffByOne(message, user) ==
  IF message = <<>> \/ user = <<>> THEN "Message and user are required"
  ELSE IF Len(message) >= MAX_MESSAGE_LENGTH THEN "Message too long"
  ELSE IF Len(user) >= MAX_USERNAME_LENGTH THEN "Username too long"
  ELSE IF sanitizeInput(message) # message \/ sanitizeInput(user) # user
       THEN "Invalid characters detected"
  ELSE ""

\* validateMessage(message, user): the error text, or "" when valid
validateMessage(message, user) ==
  IF message = <<>> \/ user = <<>> THEN "Message and user are required"
  ELSE IF Len(message) > MAX_MESSAGE_LENGTH THEN "Message too long"
  ELSE IF Len(user) > MAX_USERNAME_LENGTH THEN "Username too long"
  ELSE IF sanitizeInput(message) # message \/ sanitizeInput(user) # user
       THEN "Invalid characters detected"
  ELSE ""

\* ------------------------------------------------------------------------
\* Token verifier (worker/auth.ts)
\* ------------------------------------------------------------------------
\* A token is the text header.payload.signature: `parts` is the number of
\* parts token.split('.') yields; header, payload and signature are the first
\* three of them.
JwtHeader == [alg |-> "HS256", typ |-> "JWT"]

\* HMAC of the data `${encodedHeader}.${encodedPayload}` under the server
\* secret: a function of the data that cannot be computed without the secret
generateSignature(data) == <<"hmac", data>>

generateToken(userId, username, t) ==
  LET payload == [userId |-> userId, username |-> username,
                  iat |-> t \div 1000, exp |-> (t \div 1000) + TOKEN_LIFETIME]
  IN [parts |-> 3, header |-> JwtHeader, payload |-> payload,
      signature |-> generateSignature(<<JwtHeader, payload>>)]

NoAuth == [valid |-> FALSE, userId |-> UndefStr, username |-> <<>>]

\* (variant: the expiry is compared with the clock in milliseconds)
verifyTokenMillis(token, t) ==
  IF token.parts < 3 THEN NoAuth
  ELSE IF token.signature # generateSignature(<<token.header, token.payload>>) THEN NoAuth
  ELSE IF token.payload.exp < t THEN NoAuth
  ELSE [valid |-> TRUE, userId |-> token.payload.userId,
        username |-> token.payload.username]

\* (variant: the signature is not compared)
verifyTokenUnsigned(token, t) ==
  IF token.parts < 3 THEN NoAuth
  ELSE IF token.payload.exp < t \div 1000 THEN NoAuth
  ELSE [valid |-> TRUE, userId |-> token.payload.userId,
        username |-> token.payload.username]

\* null (NoAuth) on a signature mismatch, on an expired token and on every
\* exception. With fewer than three parts the signature is undefined and
\* differs from the expected one; parts after the third are not looked at.
verifyToken(token, t) ==
  IF token.parts < 3 THEN NoAuth
  ELSE IF token.signature # generateSignature(<<token.header, token.payload>>) THEN NoAuth
  ELSE IF token.payload.exp < t \div 1000 THEN NoAuth
  ELSE [valid |-> TRUE, userId |-> token.payload.userId,
        username |-> token.payload.username]

\* ------------------------------------------------------------------------
\* Inputs
\* ------------------------------------------------------------------------
Sockets == 1..MaxSockets

\* value of the CF-Connecting-IP header; "" when the header is missing
IPHeaders == {"ip1", ""}
\* keys of ipConnections: source IPs, 'unknown', and whatever webSocketClose
\* reads from ws.clientIP (a user id after an auth frame)
UserIds == {"id1", "id2"}
IPKeys == {"ip1", "unknown"} \cup UserIds

Alice == <<"a">>
Bob == <<"b">>
MarkupUser == <<"<", "b", ">">>
UserTexts == {Alice, Bob, MarkupUser}
Hello == <<"c">>
Markup == <<"<", "b", ">", "c", "<", "/", "b", ">">>
ContentTexts == {Hello, Markup, <<" ", "c">>, <<>>}

MsgFrame(content, user) ==
  [type |-> "message", content |-> content, message |-> <<>>,
   username |-> <<>>, user |-> user]

MessageFrames ==
  {MsgFrame(c, u) : c \in ContentTexts, u \in UserTexts}
    \cup {[type |-> "message", content |-> <<>>, message |-> Hello,
           username |-> Bob, user |-> <<>>]}

AuthFrame(token, userId, username) ==
  [type |-> "auth", authToken |-> token, userId |-> userId, username |-> username]

GoodToken == generateToken("id1", Alice, 0)
\* issued a day and a second before the start of the run
ExpiredToken == generateToken("id1", Alice, -(TOKEN_LIFETIME + 1) * 1000)
\* the payload of GoodToken rewritten for another user, the signature kept
TamperedToken ==
  [GoodToken EXCEPT !.payload = [GoodToken.payload EXCEPT !.userId = "id2"]]
\* a text without a dot
GarbageToken == [GoodToken EXCEPT !.parts = 1, !.signature = <<>>]

AuthFrames ==
  {AuthFrame(GoodToken, "id1", Alice),
   AuthFrame(GoodToken, "id2", Alice),
   AuthFrame(GoodToken, "id1", Bob),
   AuthFrame(ExpiredToken, "id1", Alice),
   AuthFrame(TamperedToken, "id2", Alice),
   AuthFrame(GarbageToken, "id1", Alice)}

\* "<binary>": an ArrayBuffer frame; "<malformed>": text that JSON.parse
\* rejects, or JSON (null) whose type cannot be read; "bogus": a type that is
\* not part of the protocol
OtherFrames ==
  {[type |-> "ping"], [type |-> "pong"], [type |-> "get_history"],
   [type |-> "typing", user |-> Alice],
   [type |-> "<binary>"], [type |-> "<malformed>"], [type |-> "bogus"]}

Frames == MessageFrames \cup AuthFrames \cup OtherFrames

\* the characters and character references of the texts given to the
\* sanitizer, and the texts of up to MaxInputLen of them
InputChars ==
  {"<", ">", "/", "&", "\"", " ", NoBreakSpace, "a",
   "&lt;", "&gt;", "&amp;", "&quot;", "&nbsp;"}
InputTexts == UNION {[1..n -> InputChars] : n \in 0..MaxInputLen}

\* texts of a given length: letters only, with a "<" in front, or with a
\* blank at the end; and the lengths next to 0 and next to a maximum
TextShapes == {"plain", "markup", "blank"}
TextOf(n, shape) ==
  [i \in 1..n |-> IF shape = "markup" /\ i = 1 THEN "<"
                  ELSE IF shape = "blank" /\ i = n THEN " "
                  ELSE "c"]
LengthsNear(max) ==
  (0..LengthMargin) \cup ((max - LengthMargin)..(max + LengthMargin))

\* the room of this actor: the name taken from the URL of the upgrade request
\* (the id of a row of the rooms table, `room-${Date.now()}`), and the id of
\* the Durable Object made from it, a digest of the name
RoomName == "room-1"
OtherRoomName == "room-2"
RoomIds == {RoomName, OtherRoomName}
idFromName(name) == "idFromName:" \o name

\* the user of each room, and the frames sent in a room
RoomUser(r) == IF r = RoomName THEN Alice ELSE Bob
RoomFrames(r) == {MsgFrame(Hello, RoomUser(r))}

\* the frames of a chat: messages with and without markup, and
\* the history request
ChatFrames ==
  {MsgFrame(Hello, Alice), MsgFrame(Markup, Alice), MsgFrame(Hello, MarkupUser),
   [type |-> "get_history"]}

\* the frames of a connection's life: authentication and a message
ConnFrames == {AuthFrame(GoodToken, "id1", Alice), MsgFrame(Hello, Alice)}

\* the frames of a connection that is kept alive or not
HealthFrames == {[type |-> "ping"], [type |-> "pong"], MsgFrame(Hello, Alice)}

\* the frames of one busy user
RateFrames == {MsgFrame(Hello, Alice)}

\* the frames of connections that only send valid messages
OrderFrames == {MsgFrame(Hello, Alice)}

\* the frames of a client that authenticates, well or badly, and sends a
\* message
LoginFrames == AuthFrames \cup {MsgFrame(Hello, Alice)}

\* the frames of an authenticated connection's later life: a refused
\* attempt, a ping and a rejected message
SessionFrames ==
  {AuthFrame(GoodToken, "id1", Alice), AuthFrame(ExpiredToken, "id1", Alice),
   [type |-> "ping"], MsgFrame(Markup, Alice)}

\* the frames of the connections next to it: a refused attempt and a message
PeerFrames == {AuthFrame(ExpiredToken, "id1", Alice), MsgFrame(Hello, Alice)}

\* the frames of a user who sends more messages than the rate limit allows,
\* some of them with markup or without content, and the message of another
\* user
RejectFrames ==
  {MsgFrame(Hello, Alice), MsgFrame(Markup, Alice), MsgFrame(<<>>, Alice)}
OtherUserFrames == {MsgFrame(Hello, Bob)}

\* the frames of clients that do not keep to the protocol, next to a message
\* and a typing notification
ProtocolFrames ==
  {[type |-> "<binary>"], [type |-> "<malformed>"], [type |-> "bogus"],
   [type |-> "typing", user |-> Alice], MsgFrame(Hello, Alice)}

\* ------------------------------------------------------------------------
\* State
\* ------------------------------------------------------------------------
VARIABLES
  now,                \* Date.now()
  ws,                 \* the server side WebSocket objects and their properties
  clients,            \* this.clients: key -> socket
  ipConnections,      \* this.ipConnections: key -> count (0 when absent)
  userMessageCounts,  \* this.userMessageCounts: user -> {count, lastReset}
  messageQueue,       \* this.messageQueue
  batchTimeout,       \* this.batchTimeout: due time of the armed timer, or Null
  healthCheckInterval,\* this.healthCheckInterval: next due time, or Null
  messageHistory,     \* this.messageHistory
  storage,            \* this.state.storage.get('messageHistory')
  typingUsers,        \* this.typingUsers: user -> time (Null when absent)
  rooms,              \* the rooms table of the database: id -> lastActivity
  room,               \* the room whose actor the variables above belong to
  parked,             \* the fields of the actors of the other rooms: room -> fields
  hook,               \* the client: the refs, state and sockets of useWebSocket
  inflight,           \* webSocketMessage calls suspended at await updateRoomActivity
  accepted,           \* history: the messages accepted so far, in order
  delivered,          \* history: the messages of all message_batch broadcasts, in order
  sent,               \* the frames sent by the last event: {[to, frame]}
  lastEvent           \* the last event handled and its outcome

vars == <<now, ws, clients, ipConnections, userMessageCounts, messageQueue,
          batchTimeout, healthCheckInterval, messageHistory, storage,
          typingUsers, rooms, room, parked, hook, inflight, accepted, delivered, sent,
          lastEvent>>

\* this.state.id.toString(): the id of the Durable Object of the room
StateId == idFromName(room)

\* no connection: a socket not created yet or closed (its properties are
\* never read again)
NoSocket ==
  [state |-> "none", ip |-> "", clientIP |-> UndefStr, lastPing |-> Undef,
   retryCount |-> Undef, ticks |-> 0, pings |-> 0, failedAuth |-> FALSE]

\* (variant: the accept initialises the health fields of the socket)
NewSocketInitialised(ip) ==
  [state |-> "open", ip |-> ip, clientIP |-> UndefStr, lastPing |-> now,
   retryCount |-> 0, ticks |-> 0, pings |-> 0, failedAuth |-> FALSE]

\* a WebSocket created by new WebSocketPair(): none of the ExtendedWebSocket
\* properties is ever initialised (ip, ticks, pings and failedAuth are history
\* fields)
NewSocket(ip) ==
  [state |-> "open", ip |-> ip, clientIP |-> UndefStr, lastPing |-> Undef,
   retryCount |-> Undef, ticks |-> 0, pings |-> 0, failedAuth |-> FALSE]

NoCount == [count |-> 0, lastReset |-> Undef]

Range(f) == {f[k] : k \in DOMAIN f}

\* the key under which fetch / webSocketClose / webSocketError file a socket:
\* server.toString(), which is Object.prototype.toString for every WebSocket
WsKey(s) == "[object WebSocket]"

MapSet(m, k, v) == [x \in DOMAIN m \cup {k} |-> IF x = k THEN v ELSE m[x]]
MapDelete(m, k) == [x \in DOMAIN m \ {k} |-> m[x]]

\* the client (src/hooks/useWebSocket.ts): its identity, closures and sockets
\* what useAuth() or the props give: nothing, or a token with its user
NoIdentity == [authToken |-> "", userId |-> "", username |-> <<>>]
ClientIdentity(token) == [authToken |-> token, userId |-> "id1", username |-> Alice]
ClientTokens == {"token-1", "token-2"}
Identities == {NoIdentity} \cup {ClientIdentity(t) : t \in ClientTokens}

\* authToken && userId && username
HasIdentity(a) == a.authToken # "" /\ a.userId # "" /\ a.username # <<>>

\* what a connect function made by useCallback sees: the values of the render
\* in which its dependencies [roomId, authToken, userId, username] changed
Closure(a, socket, requested) ==
  [auth |-> a, ws |-> socket, hasRequestedHistory |-> requested]

\* new WebSocket(wsUrl) with the handlers connect puts on it; opened: onopen
\* has run; available: the identity the hook had then; frames: what was sent
WebSocketObject(c) ==
  [readyState |-> "CONNECTING", handlers |-> TRUE, closure |-> c, opened |-> FALSE,
   available |-> NoIdentity, frames |-> <<>>]

LiveStates == {"CONNECTING", "OPEN"}

\* a socket whose connection has ended: it fires no event and nothing reads
\* it but for its readyState
ClosedSocket ==
  [readyState |-> "CLOSED", handlers |-> FALSE, closure |-> Closure(NoIdentity, 0, FALSE),
   opened |-> FALSE, available |-> NoIdentity, frames |-> <<>>]

\* the close events of a socket: its code and wasClean. A socket that never
\* opened fails; an open one is closed by the server, normally (1000) or not
\* (1001), or is lost (1006); one the client closed with close() ends with
\* 1005, or is lost
CloseKinds(readyState) ==
  CASE readyState = "CONNECTING" -> {[code |-> 1006, wasClean |-> FALSE]}
    [] readyState = "OPEN" -> {[code |-> 1000, wasClean |-> TRUE],
                               [code |-> 1001, wasClean |-> TRUE],
                               [code |-> 1006, wasClean |-> FALSE]}
    [] readyState = "CLOSING" -> {[code |-> 1005, wasClean |-> TRUE],
                                  [code |-> 1006, wasClean |-> FALSE]}
    [] OTHER -> {}

\* the hook before it is mounted
NoHook ==
  [def |-> 0, mounted |-> FALSE, auth |-> NoIdentity,
   connect |-> Closure(NoIdentity, 0, FALSE),
   sockets |-> <<>>, ws |-> 0, reconnectTimeoutRef |-> 0, timers |-> {},
   isConnectingRef |-> FALSE, isConnected |-> FALSE, error |-> "", messages |-> <<>>,
   hasRequestedHistory |-> FALSE, historyRequests |-> 0, last |-> [type |-> "none"]]

\* the fields of an actor after its constructor
NewActor ==
  [ws |-> [s \in Sockets |-> NoSocket],
   clients |-> <<>>,
   ipConnections |-> [k \in IPKeys |-> 0],
   userMessageCounts |-> [u \in UserTexts |-> NoCount],
   messageQueue |-> <<>>,
   batchTimeout |-> Null,
   healthCheckInterval |-> Null,
   messageHistory |-> <<>>,
   storage |-> <<>>,
   typingUsers |-> [u \in UserTexts |-> Null],
   inflight |-> {},
   accepted |-> <<>>,
   delivered |-> <<>>]

\* the fields of the actor of the current room
ThisActor ==
  [ws |-> ws,
   clients |-> clients,
   ipConnections |-> ipConnections,
   userMessageCounts |-> userMessageCounts,
   messageQueue |-> messageQueue,
   batchTimeout |-> batchTimeout,
   healthCheckInterval |-> healthCheckInterval,
   messageHistory |-> messageHistory,
   storage |-> storage,
   typingUsers |-> typingUsers,
   inflight |-> inflight,
   accepted |-> accepted,
   delivered |-> delivered]

Init ==
  /\ now = 0
  /\ ws = NewActor.ws
  /\ clients = NewActor.clients
  /\ ipConnections = NewActor.ipConnections
  /\ userMessageCounts = NewActor.userMessageCounts
  /\ messageQueue = NewActor.messageQueue
  /\ batchTimeout = NewActor.batchTimeout
  /\ healthCheckInterval = NewActor.healthCheckInterval
  /\ messageHistory = NewActor.messageHistory
  /\ storage = NewActor.storage
  /\ typingUsers = NewActor.typingUsers
  /\ rooms = [r \in RoomIds |-> 0]
  /\ room = RoomName
  /\ parked = [r \in RoomIds \ {RoomName} |-> NewActor]
  /\ hook = NoHook
  /\ inflight = NewActor.inflight
  /\ accepted = NewActor.accepted
  /\ delivered = NewActor.delivered
  /\ sent = {}
  /\ lastEvent = [type |-> "init"]

\* ------------------------------------------------------------------------
\* Sending
\* ------------------------------------------------------------------------
Live(sk) == {s \in Sockets : sk[s].state = "open"}

\* broadcast(message): to every client of this.clients whose readyState is OPEN
broadcast(cl, sk, frame) ==
  {[to |-> s, frame |-> frame] : s \in {x \in Range(cl) : sk[x].state = "open"}}

\* broadcastConnectionCount()
broadcastConnectionCount(cl, sk) ==
  broadcast(cl, sk, [type |-> "connection_count", count |-> Cardinality(DOMAIN cl)])

\* broadcastBatch(messages)
broadcastBatch(cl, sk, messages) ==
  IF messages = <<>> THEN {}
  ELSE broadcast(cl, sk, [type |-> "message_batch", messages |-> messages])

ErrorFrame(text) == [type |-> "error", message |-> text]

\* ------------------------------------------------------------------------
\* fetch(request): the WebSocket upgrade
\* ------------------------------------------------------------------------
\* s is the server side socket new WebSocketPair() would create: an unused
\* socket object (the object of a closed connection is garbage, its name is
\* used again for a fresh object once no suspended handler refers to it).
fetch(s, upgrade, header) ==
  /\ ws[s].state = "none"
  /\ \A k \in inflight : k.sock # s
  /\ LET clientIP == JsOrStr(header, "unknown")
         currentConnections == ipConnections[clientIP]
     IN IF ~upgrade
        THEN /\ lastEvent' = [type |-> "fetch", sock |-> s, ip |-> clientIP, status |-> 400]
             /\ sent' = {}
             /\ UNCHANGED <<ws, clients, ipConnections, healthCheckInterval>>
        ELSE IF currentConnections >= MAX_CONNECTIONS_PER_IP
        THEN /\ lastEvent' = [type |-> "fetch", sock |-> s, ip |-> clientIP, status |-> 429]
             /\ sent' = {}
             /\ UNCHANGED <<ws, clients, ipConnections, healthCheckInterval>>
        ELSE LET sk == [ws EXCEPT ![s] = NewSocket(clientIP)]
                 cl == MapSet(clients, WsKey(s), s)
             IN /\ ws' = sk
                /\ clients' = cl
                /\ ipConnections' = [ipConnections EXCEPT ![clientIP] = currentConnections + 1]
                /\ sent' = {[to |-> s,
                             frame |-> [type |-> "connection_status", status |-> "connected",
                                        connectionCount |-> Cardinality(DOMAIN cl)]]}
                            \cup broadcastConnectionCount(cl, sk)
                /\ healthCheckInterval' =
                     IF healthCheckInterval = Null THEN now + PING_INTERVAL
                     ELSE healthCheckInterval
                /\ lastEvent' = [type |-> "fetch", sock |-> s, ip |-> clientIP, status |-> 101]
  /\ UNCHANGED <<now, userMessageCounts, messageQueue, batchTimeout, messageHistory, rooms,
                 storage, typingUsers, inflight, accepted, delivered>>

\* ------------------------------------------------------------------------
\* webSocketMessage(ws, message)
\* ------------------------------------------------------------------------
FrameEvent(s, f, outcome) == [type |-> "frame", sock |-> s, frame |-> f, outcome |-> outcome]

\* (variant: the answer is sent to every client of the room)
ReplyToAll(s, f, frame, outcome) ==
  /\ sent' = {[to |-> s, frame |-> frame]} \cup broadcast(clients, ws, frame)
  /\ lastEvent' = FrameEvent(s, f, outcome)

Reply(s, f, frame, outcome) ==
  /\ sent' = {[to |-> s, frame |-> frame]}
  /\ lastEvent' = FrameEvent(s, f, outcome)

\* (variant: the window is never started again)
RateEntryKeepingWindow(user) ==
  LET stored == userMessageCounts[user]
  IN IF stored.lastReset = Undef THEN [count |-> 0, lastReset |-> now] ELSE stored

\* (variant: a new window starts with the count of the last one)
RateEntryCarryingCount(user) ==
  LET stored == userMessageCounts[user]
      userCount == IF stored.lastReset = Undef
                   THEN [count |-> 0, lastReset |-> now] ELSE stored
  IN IF now - userCount.lastReset > RATE_WINDOW
     THEN [count |-> userCount.count, lastReset |-> now]
     ELSE userCount

\* the rate entry webSocketMessage works on: the stored one or a fresh
\* {count: 0, lastReset: Date.now()}, reset when the window has elapsed
RateEntry(user) ==
  LET stored == userMessageCounts[user]
      userCount == IF stored.lastReset = Undef
                   THEN [count |-> 0, lastReset |-> now] ELSE stored
  IN IF now - userCount.lastReset > RATE_WINDOW
     THEN [count |-> 0, lastReset |-> now]
     ELSE userCount

\* (variant: the cap is compared with > instead of >=)
RateExceededOffByOne(userCount) == userCount.count > RATE_LIMIT

RateExceeded(userCount) == userCount.count >= RATE_LIMIT

\* (variant: the new message is put in front of the queue)
PushFront(queue, m) == <<m>> \o queue

\* this.messageQueue.push(newMessage)
Push(queue, m) == Append(queue, m)

\* (variant: the user name of the frame is not compared)
AuthRefusedIdOnly(auth, f) == ~auth.valid \/ auth.userId # f.userId

\* !auth || auth.userId !== data.userId || auth.username !== data.username
AuthRefused(auth, f) ==
  ~auth.valid \/ auth.userId # f.userId \/ auth.username # f.username

\* (variant: a refused attempt takes the identity off the connection)
AuthRejectedClearing(sk, s) ==
  [sk EXCEPT ![s].failedAuth = TRUE, ![s].clientIP = UndefStr]

\* (variant: a refused attempt closes the connection)
AuthRejectedClosing(sk, s) ==
  [sk EXCEPT ![s].failedAuth = TRUE, ![s].state = "closing"]

\* the sockets after a refused attempt: nothing but the history changes
AuthRejected(sk, s) == [sk EXCEPT ![s].failedAuth = TRUE]

HandleAuth(s, f) ==
  LET auth == verifyToken(f.authToken, now)
  IN /\ IF AuthRefused(auth, f)
        THEN /\ Reply(s, f, ErrorFrame("Invalid authentication"), "auth_error")
             /\ ws' = AuthRejected(ws, s)
        ELSE /\ ws' = [ws EXCEPT ![s].clientIP = f.userId]
             /\ Reply(s, f, [type |-> "auth_success", username |-> f.username], "auth_success")
     /\ UNCHANGED <<clients, ipConnections, userMessageCounts, messageQueue, batchTimeout,
                    typingUsers, inflight, accepted>>

HandlePing(s, f) ==
  /\ ws' = [ws EXCEPT ![s].lastPing = now]
  /\ Reply(s, f, [type |-> "pong"], "pong")
  /\ UNCHANGED <<clients, ipConnections, userMessageCounts, messageQueue, batchTimeout,
                 typingUsers, inflight, accepted>>

HandleTyping(s, f) ==
  /\ typingUsers' = [typingUsers EXCEPT ![f.user] = now]
  /\ sent' = broadcast(clients, ws, [type |-> "typing", user |-> f.user])
  /\ lastEvent' = FrameEvent(s, f, "typing")
  /\ UNCHANGED <<ws, clients, ipConnections, userMessageCounts, messageQueue, batchTimeout,
                 inflight, accepted>>

HandleMessage(s, f) ==
  LET content == JsOrText(f.content, f.message)
      user == JsOrText(f.username, f.user)
      error == validateMessage(content, user)
  IN IF content = <<>> \/ user = <<>>
     THEN /\ Reply(s, f, ErrorFrame("Message and user are required"), "invalid")
          /\ UNCHANGED <<ws, clients, ipConnections, userMessageCounts, messageQueue,
                         batchTimeout, typingUsers, inflight, accepted>>
     ELSE IF error # ""
     THEN /\ Reply(s, f, ErrorFrame(error), "invalid")
          /\ UNCHANGED <<ws, clients, ipConnections, userMessageCounts, messageQueue,
                         batchTimeout, typingUsers, inflight, accepted>>
     ELSE LET userCount == RateEntry(user)
          IN IF RateExceeded(userCount)
             THEN /\ Reply(s, f, ErrorFrame("Message rate limit exceeded"), "rate_limited")
                  /\ UNCHANGED <<ws, clients, ipConnections, userMessageCounts, messageQueue,
                                 batchTimeout, typingUsers, inflight, accepted>>
             ELSE LET newMessage == [message |-> content, user |-> user,
                                     id |-> <<now, Len(accepted) + 1>>,
                                     timestamp |-> now]
                  IN /\ userMessageCounts' =
                          [userMessageCounts EXCEPT
                             ![user] = [userCount EXCEPT !.count = userCount.count + 1]]
                     /\ messageQueue' = Push(messageQueue, newMessage)
                     /\ batchTimeout' =
                          IF batchTimeout = Null THEN now + BATCH_DELAY ELSE batchTimeout
                     /\ inflight' = inflight \cup {[sock |-> s, id |-> newMessage.id]}
                     /\ accepted' = Append(accepted, newMessage)
                     /\ sent' = {}
                     /\ lastEvent' = FrameEvent(s, f, "accepted")
                     /\ UNCHANGED <<ws, clients, ipConnections, typingUsers>>

\* frames that are no text, and text frames of a type the handler has no
\* branch for (pong, get_history, ...), change nothing and send nothing
HandleIgnored(s, f) ==
  /\ sent' = {}
  /\ lastEvent' = FrameEvent(s, f, "ignored")
  /\ UNCHANGED <<ws, clients, ipConnections, userMessageCounts, messageQueue, batchTimeout,
                 typingUsers, inflight, accepted>>

\* (variant: the catch block tells every client)
HandleMalformedBroadcast(s, f) ==
  /\ sent' = broadcast(clients, ws, ErrorFrame("Invalid message format"))
  /\ lastEvent' = FrameEvent(s, f, "malformed")
  /\ UNCHANGED <<ws, clients, ipConnections, userMessageCounts, messageQueue, batchTimeout,
                 typingUsers, inflight, accepted>>

\* JSON.parse throws, or the type of the parsed value cannot be read: the
\* catch block answers with an error frame
HandleMalformed(s, f) ==
  /\ Reply(s, f, ErrorFrame("Invalid message format"), "malformed")
  /\ UNCHANGED <<ws, clients, ipConnections, userMessageCounts, messageQueue, batchTimeout,
                 typingUsers, inflight, accepted>>

webSocketMessage(s, f) ==
  /\ ws[s].state = "open"
  /\ CASE f.type = "<binary>" -> HandleIgnored(s, f)
       [] f.type = "<malformed>" -> HandleMalformed(s, f)
       [] f.type = "auth" -> HandleAuth(s, f)
       [] f.type = "ping" -> HandlePing(s, f)
       [] f.type = "typing" -> HandleTyping(s, f)
       [] f.type = "message" -> HandleMessage(s, f)
       [] OTHER -> HandleIgnored(s, f)
  /\ UNCHANGED <<now, healthCheckInterval, messageHistory, rooms, storage, delivered>>

\* (variant: the update has no where clause)
updateRoomActivityEveryRoom(rm, roomId) == [r \in DOMAIN rm |-> now]

\* updateRoomActivity(roomId): update rooms set lastActivity = new Date()
\* where rooms.id = roomId
updateRoomActivity(rm, roomId) ==
  [r \in DOMAIN rm |-> IF r = roomId THEN now ELSE rm[r]]

\* the awaited updateRoomActivity(this.state.id.toString()) of a suspended
\* webSocketMessage call settles: on success the handler returns, on failure
\* its catch block sends an error frame to the socket (send fails silently on
\* a socket that closed)
updateRoomActivityDone(k, ok) ==
  /\ k \in inflight
  /\ inflight' = inflight \ {k}
  /\ rooms' = IF ok THEN updateRoomActivity(rooms, StateId) ELSE rooms
  /\ sent' = IF ok \/ ws[k.sock].state # "open" THEN {}
             ELSE {[to |-> k.sock, frame |-> ErrorFrame("Invalid message format")]}
  /\ lastEvent' = [type |-> "activity", ok |-> ok]
  /\ UNCHANGED <<now, ws, clients, ipConnections, userMessageCounts, messageQueue,
                 batchTimeout, healthCheckInterval, messageHistory, storage, typingUsers,
                 accepted, delivered>>

\* ------------------------------------------------------------------------
\* webSocketClose(ws), webSocketError(ws, error)
\* ------------------------------------------------------------------------
webSocketClose(s) ==
  /\ ws[s].state \in {"open", "errored", "closing"}
  /\ LET sk == [ws EXCEPT ![s] = NoSocket]
         cl == MapDelete(clients, WsKey(s))
         clientIP == JsOrStr(ws[s].clientIP, "unknown")
         currentConnections == ipConnections[clientIP]
     IN /\ ws' = sk
        /\ clients' = cl
        /\ ipConnections' =
             IF currentConnections > 0
             THEN [ipConnections EXCEPT ![clientIP] = currentConnections - 1]
             ELSE ipConnections
        /\ sent' = broadcastConnectionCount(cl, sk)
        /\ lastEvent' = [type |-> "close", sock |-> s, ip |-> ws[s].ip, key |-> clientIP]
  /\ UNCHANGED <<now, userMessageCounts, messageQueue, batchTimeout, healthCheckInterval,
                 messageHistory, rooms, storage, typingUsers, inflight, accepted, delivered>>

webSocketError(s) ==
  /\ ws[s].state = "open"
  /\ ws' = [ws EXCEPT ![s].state = "errored"]
  /\ clients' = MapDelete(clients, WsKey(s))
  /\ sent' = {}
  /\ lastEvent' = [type |-> "error", sock |-> s, ip |-> ws[s].ip]
  /\ UNCHANGED <<now, ipConnections, userMessageCounts, messageQueue, batchTimeout,
                 healthCheckInterval, messageHistory, rooms, storage, typingUsers, inflight,
                 accepted, delivered>>

\* ------------------------------------------------------------------------
\* Timers
\* ------------------------------------------------------------------------
\* (variant: the callback does not empty the queue)
flushBatchKeepingQueue ==
  /\ batchTimeout # Null
  /\ now >= batchTimeout
  /\ sent' = broadcastBatch(clients, ws, messageQueue)
  /\ delivered' = delivered \o messageQueue
  /\ messageQueue' = messageQueue
  /\ batchTimeout' = Null
  /\ lastEvent' = [type |-> "flush"]
  /\ UNCHANGED <<now, ws, clients, ipConnections, userMessageCounts, healthCheckInterval,
                 messageHistory, rooms, storage, typingUsers, inflight, accepted>>

\* (variant: the callback broadcasts the message that armed the timer and
\* empties the queue)
flushBatchFirstOnly ==
  /\ batchTimeout # Null
  /\ now >= batchTimeout
  /\ sent' = broadcastBatch(clients, ws, SubSeq(messageQueue, 1, 1))
  /\ delivered' = delivered \o SubSeq(messageQueue, 1, 1)
  /\ messageQueue' = <<>>
  /\ batchTimeout' = Null
  /\ lastEvent' = [type |-> "flush"]
  /\ UNCHANGED <<now, ws, clients, ipConnections, userMessageCounts, healthCheckInterval,
                 messageHistory, rooms, storage, typingUsers, inflight, accepted>>

\* (variant: the callback leaves the handle of the timer in place)
flushBatchKeepingTimer ==
  /\ batchTimeout # Null
  /\ now >= batchTimeout
  /\ sent' = broadcastBatch(clients, ws, messageQueue)
  /\ delivered' = delivered \o messageQueue
  /\ messageQueue' = <<>>
  /\ batchTimeout' = batchTimeout
  /\ lastEvent' = [type |-> "flush"]
  /\ UNCHANGED <<now, ws, clients, ipConnections, userMessageCounts, healthCheckInterval,
                 messageHistory, rooms, storage, typingUsers, inflight, accepted>>

\* the setTimeout callback armed by webSocketMessage
flushBatch ==
  /\ batchTimeout # Null
  /\ now >= batchTimeout
  /\ sent' = broadcastBatch(clients, ws, messageQueue)
  /\ delivered' = delivered \o messageQueue
  /\ messageQueue' = <<>>
  /\ batchTimeout' = Null
  /\ lastEvent' = [type |-> "flush"]
  /\ UNCHANGED <<now, ws, clients, ipConnections, userMessageCounts, healthCheckInterval,
                 messageHistory, rooms, storage, typingUsers, inflight, accepted>>

\* one socket of this.clients in the setInterval callback of startHealthCheck
HealthCheckSocket(w) ==
  IF JsMinusGt(now, w.lastPing, PONG_TIMEOUT)
  THEN IF JsGe(w.retryCount, MAX_RETRY_ATTEMPTS)
       THEN [w EXCEPT !.state = "closing"]
       ELSE IF w.state = "open"
            THEN [w EXCEPT !.retryCount = JsIncrement(w.retryCount), !.pings = w.pings + 1]
            ELSE [w EXCEPT !.retryCount = JsIncrement(w.retryCount), !.state = "closing"]
  ELSE w

healthCheck ==
  /\ healthCheckInterval # Null
  /\ now >= healthCheckInterval
  /\ LET checked == [s \in Sockets |->
                       IF s \in Range(clients) THEN HealthCheckSocket(ws[s]) ELSE ws[s]]
     IN /\ ws' = [s \in Sockets |->
                    IF checked[s].state = "open"
                    THEN [checked[s] EXCEPT !.ticks = checked[s].ticks + 1]
                    ELSE checked[s]]
        /\ sent' = {[to |-> s, frame |-> [type |-> "ping"]] :
                      s \in {x \in Sockets : checked[x].pings # ws[x].pings}}
  /\ healthCheckInterval' = healthCheckInterval + PING_INTERVAL
  /\ lastEvent' = [type |-> "health"]
  /\ UNCHANGED <<now, clients, ipConnections, userMessageCounts, messageQueue, batchTimeout,
                 messageHistory, rooms, storage, typingUsers, inflight, accepted, delivered>>

\* time passes up to the next due time of a timer of any room (timers are
\* punctual: no time passes while a timer is due; time is not followed before
\* the first connection starts the health check)
Deadlines ==
  {d \in {batchTimeout, healthCheckInterval}
            \cup {parked[r].batchTimeout : r \in DOMAIN parked}
            \cup {parked[r].healthCheckInterval : r \in DOMAIN parked} : d # Null}

Advance(maxTime) ==
  /\ now < maxTime
  /\ Deadlines # {}
  /\ \A d \in Deadlines : now < d
  /\ now' = CHOOSE d \in Deadlines : \A e \in Deadlines : d <= e
  /\ UNCHANGED <<ws, clients, ipConnections, userMessageCounts, messageQueue, batchTimeout,
                 healthCheckInterval, messageHistory, rooms, storage, typingUsers, inflight,
                 accepted, delivered, sent, lastEvent>>

\* ------------------------------------------------------------------------
\* Tokens: issued by handleLogin / handleSignup, verified by verifyToken
\* ------------------------------------------------------------------------
Day == TOKEN_LIFETIME * 1000

\* the times at which tokens are issued and presented: around the start of
\* the run and around one day later, on and off the whole second
TokenTimes ==
  {0, 1, 999, 1000, Day - 1, Day, Day + 1, Day + 999, Day + 1000, Day + 1001,
   Day + 1999, Day + 2000}

TokenNames == {Alice, Bob}

\* what a client that does not know the secret can do to a token before it
\* presents it: rewrite a field of the payload or of the header, replace or
\* cut off the signature, send text without a dot or no text at all, or
\* append a further part
Forgeries ==
  {"userId", "username", "exp", "header", "signature", "two_parts", "one_part",
   "no_token"}
Alterations == {"none", "extra_part"} \cup Forgeries

Alter(token, kind) ==
  CASE kind = "none" -> token
    [] kind = "extra_part" -> [token EXCEPT !.parts = 4]
    [] kind = "userId" ->
         [token EXCEPT !.payload.userId = IF @ = "id1" THEN "id2" ELSE "id1"]
    [] kind = "username" ->
         [token EXCEPT !.payload.username = IF @ = Alice THEN Bob ELSE Alice]
    [] kind = "exp" -> [token EXCEPT !.payload.exp = @ + TOKEN_LIFETIME]
    [] kind = "header" -> [token EXCEPT !.header.alg = "none"]
    [] kind = "signature" -> [token EXCEPT !.signature = <<>>]
    [] kind = "two_parts" -> [token EXCEPT !.parts = 2, !.signature = <<>>]
    [] kind = "one_part" -> [token EXCEPT !.parts = 1, !.signature = <<>>]
    [] kind = "no_token" -> [token EXCEPT !.parts = 0, !.signature = <<>>]

\* handleLogin / handleSignup answer with generateToken({userId, username})
handleLogin(userId, username) ==
  /\ lastEvent' = [type |-> "issue", userId |-> userId, username |-> username,
                   issued |-> now, token |-> generateToken(userId, username, now)]
  /\ sent' = {}
  /\ UNCHANGED <<now, ws, clients, ipConnections, userMessageCounts, messageQueue,
                 batchTimeout, healthCheckInterval, messageHistory, storage, typingUsers,
                 rooms, room, parked, hook, inflight, accepted, delivered>>

\* the token issued last, altered or not, is handed to verifyToken
presentToken(kind) ==
  /\ lastEvent.type \in {"issue", "verify"}
  /\ lastEvent' = [type |-> "verify", userId |-> lastEvent.userId,
                   username |-> lastEvent.username, issued |-> lastEvent.issued,
                   token |-> lastEvent.token, alter |-> kind, at |-> now,
                   result |-> verifyToken(Alter(lastEvent.token, kind), now)]
  /\ sent' = {}
  /\ UNCHANGED <<now, ws, clients, ipConnections, userMessageCounts, messageQueue,
                 batchTimeout, healthCheckInterval, messageHistory, storage, typingUsers,
                 rooms, room, parked, hook, inflight, accepted, delivered>>

\* Date.now() moves on
TokenClock ==
  /\ \E t \in TokenTimes : t > now /\ now' = t
  /\ UNCHANGED <<ws, clients, ipConnections, userMessageCounts, messageQueue,
                 batchTimeout, healthCheckInterval, messageHistory, storage, typingUsers,
                 rooms, room, parked, hook, inflight, accepted, delivered, sent, lastEvent>>

\* ------------------------------------------------------------------------
\* Rooms
\* ------------------------------------------------------------------------
\* env.WEBSOCKET_HIBERNATION_SERVER.get(idFromName(roomId)): the runtime runs
\* the events of one actor at a time; the events that follow are those of the
\* actor of room r, whose fields are those it had when it last ran
RunActor(r) ==
  /\ r \in DOMAIN parked
  /\ room' = r
  /\ parked' = [x \in (DOMAIN parked \ {r}) \cup {room} |->
                  IF x = room THEN ThisActor ELSE parked[x]]
  /\ ws' = parked[r].ws
  /\ clients' = parked[r].clients
  /\ ipConnections' = parked[r].ipConnections
  /\ userMessageCounts' = parked[r].userMessageCounts
  /\ messageQueue' = parked[r].messageQueue
  /\ batchTimeout' = parked[r].batchTimeout
  /\ healthCheckInterval' = parked[r].healthCheckInterval
  /\ messageHistory' = parked[r].messageHistory
  /\ storage' = parked[r].storage
  /\ typingUsers' = parked[r].typingUsers
  /\ inflight' = parked[r].inflight
  /\ accepted' = parked[r].accepted
  /\ delivered' = parked[r].delivered
  /\ sent' = {}
  /\ lastEvent' = [type |-> "actor", room |-> r]
  /\ UNCHANGED <<now, rooms, hook>>

\* ------------------------------------------------------------------------
\* Eviction: the runtime discards the instance and constructs a new one
\* ------------------------------------------------------------------------
\* the connection set and the address counts of a new instance: the field
\* initialisers, whatever sockets the runtime still holds
RestoredClients(sk) ==
  [clients |-> NewActor.clients, ipConnections |-> NewActor.ipConnections]

\* the socket object the runtime hands to the handlers of a new instance:
\* the connection is the same, the properties the old instance put on the
\* old object are gone (no attachment is serialised)
WakeSocket(w) ==
  IF w.state = "none" THEN w
  ELSE [w EXCEPT !.clientIP = UndefStr, !.lastPing = Undef, !.retryCount = Undef]

\* constructor(state, env) with initializeState(), run by the runtime for the
\* first event after it discarded the instance (never while a handler is
\* suspended); the accepted sockets stay with the runtime, the timers of the
\* old instance are gone with it
constructor ==
  /\ inflight = {}
  /\ ws' = [s \in Sockets |-> WakeSocket(ws[s])]
  /\ clients' = RestoredClients(ws).clients
  /\ ipConnections' = RestoredClients(ws).ipConnections
  /\ userMessageCounts' = NewActor.userMessageCounts
  /\ messageQueue' = NewActor.messageQueue
  /\ batchTimeout' = NewActor.batchTimeout
  /\ healthCheckInterval' = NewActor.healthCheckInterval
  /\ messageHistory' = IF storage # <<>> THEN storage ELSE NewActor.messageHistory
  /\ typingUsers' = NewActor.typingUsers
  /\ sent' = {}
  /\ lastEvent' = [type |-> "constructor", attached |-> Live(ws)]
  /\ UNCHANGED <<now, storage, rooms, room, parked, hook, inflight, accepted, delivered>>

\* ------------------------------------------------------------------------
\* Client: the hook useWebSocket (src/hooks/useWebSocket.ts), which the file
\* defines twice; hook.def tells which definition is mounted
\* ------------------------------------------------------------------------
\* clearTimeout(reconnectTimeoutRef.current)
clearTimeout(h) == [h EXCEPT !.timers = {t \in h.timers : t.id # h.reconnectTimeoutRef}]

\* window.setTimeout(connect, 3000) by a handler of a socket made under c;
\* the id of the timer is one that no timer and no ref holds
setTimeout(h, c) ==
  LET used == {t.id : t \in h.timers} \cup {h.reconnectTimeoutRef}
      id == CHOOSE n \in 1..(Cardinality(used) + 1) :
              n \notin used /\ \A m \in 1..(n - 1) : m \in used
  IN [h EXCEPT !.timers = @ \cup {[id |-> id, due |-> now + RECONNECT_DELAY,
                                   closure |-> c]},
               !.reconnectTimeoutRef = id]

\* socket.send of the frames onopen sends
SendOnOpen(h, i, frames) ==
  [h EXCEPT !.sockets[i].frames = @ \o frames,
            !.sockets[i].opened = TRUE,
            !.sockets[i].available = h.auth,
            !.historyRequests =
               @ + Cardinality({k \in 1..Len(frames) : frames[k].type = "get_history"})]

AuthFrameOf(a) == [type |-> "auth", authToken |-> a.authToken]
HistoryFrameOf(a) == [type |-> "get_history", authToken |-> a.authToken]

\* ---- first definition (refs: ws, reconnectTimeoutRef, isConnectingRef) ----
\* (variant: cleanup closes the socket only when it is open)
cleanupOpenOnly(h) ==
  LET h1 == [clearTimeout(h) EXCEPT !.reconnectTimeoutRef = 0]
      h2 == IF h1.ws # 0
            THEN [h1 EXCEPT !.sockets[h1.ws].handlers = FALSE,
                            !.sockets[h1.ws].readyState =
                               IF @ = "OPEN" THEN "CLOSING" ELSE @,
                            !.ws = 0]
            ELSE h1
  IN [h2 EXCEPT !.isConnectingRef = FALSE]

\* (variant: cleanup leaves the handlers on the socket it closes)
cleanupKeepingHandlers(h) ==
  LET h1 == [clearTimeout(h) EXCEPT !.reconnectTimeoutRef = 0]
      h2 == IF h1.ws # 0
            THEN [h1 EXCEPT !.sockets[h1.ws].readyState =
                               IF @ \in LiveStates THEN "CLOSING" ELSE @,
                            !.ws = 0]
            ELSE h1
  IN [h2 EXCEPT !.isConnectingRef = FALSE]

cleanup(h) ==
  LET h1 == [clearTimeout(h) EXCEPT !.reconnectTimeoutRef = 0]
      h2 == IF h1.ws # 0
            THEN [h1 EXCEPT !.sockets[h1.ws].handlers = FALSE,
                            !.sockets[h1.ws].readyState =
                               IF @ \in LiveStates THEN "CLOSING" ELSE @,
                            !.ws = 0]
            ELSE h1
  IN [h2 EXCEPT !.isConnectingRef = FALSE]

connect(h, c) ==
  IF (h.ws # 0 /\ h.sockets[h.ws].readyState = "OPEN") \/ h.isConnectingRef
  THEN h
  ELSE LET h1 == cleanup(h)
       IN [h1 EXCEPT !.isConnectingRef = TRUE,
                     !.sockets = Append(@, WebSocketObject(c)),
                     !.ws = Len(h1.sockets) + 1]

onopen(h, i) ==
  LET a == h.sockets[i].closure.auth
      h1 == [h EXCEPT !.isConnected = TRUE, !.error = "", !.isConnectingRef = FALSE]
  IN SendOnOpen(h1, i, IF HasIdentity(a) THEN <<AuthFrameOf(a), HistoryFrameOf(a)>>
                       ELSE <<>>)

onclose(h, i, event) ==
  LET h1 == [h EXCEPT !.isConnected = FALSE, !.isConnectingRef = FALSE, !.ws = 0]
  IN IF event.code # 1000 /\ h1.reconnectTimeoutRef = 0
     THEN setTimeout(h1, h.sockets[i].closure)
     ELSE h1

onerror(h) ==
  [h EXCEPT !.error = "Connection error. Please try again.", !.isConnectingRef = FALSE]

\* (variant: a message sent while the socket is not open is shown at once)
sendMessageOptimistic(h, content) ==
  IF h.ws = 0 \/ h.sockets[h.ws].readyState # "OPEN"
  THEN [h EXCEPT !.error = "Not connected to server", !.messages = Append(@, content)]
  ELSE [h EXCEPT !.sockets[h.ws].frames =
                    Append(@, [type |-> "message", content |-> content])]

sendMessage(h, content) ==
  IF h.ws = 0 \/ h.sockets[h.ws].readyState # "OPEN"
  THEN [h EXCEPT !.error = "Not connected to server"]
  ELSE [h EXCEPT !.sockets[h.ws].frames =
                    Append(@, [type |-> "message", content |-> content])]

\* ---- second definition (state: ws, hasRequestedHistory; ref: reconnectTimeoutRef) ----
connect2(h, c) ==
  LET h1 == IF h.reconnectTimeoutRef # 0
            THEN [clearTimeout(h) EXCEPT !.reconnectTimeoutRef = 0]
            ELSE h
      h2 == IF c.ws # 0 /\ h1.sockets[c.ws].readyState = "OPEN"
            THEN [h1 EXCEPT !.sockets[c.ws].readyState = "CLOSING"]
            ELSE h1
  IN [h2 EXCEPT !.sockets = Append(@, WebSocketObject(c)),
                !.ws = Len(h2.sockets) + 1]

onopen2(h, i) ==
  LET c == h.sockets[i].closure
      request == c.auth.authToken # "" /\ ~c.hasRequestedHistory
      h1 == [h EXCEPT !.isConnected = TRUE, !.error = "",
                      !.hasRequestedHistory = IF request THEN TRUE ELSE @]
  IN SendOnOpen(h1, i,
                (IF HasIdentity(c.auth) THEN <<AuthFrameOf(c.auth)>> ELSE <<>>)
                  \o (IF request THEN <<HistoryFrameOf(c.auth)>> ELSE <<>>))

onclose2(h, i, event) ==
  LET c == h.sockets[i].closure
      h1 == [h EXCEPT !.isConnected = FALSE]
  IN IF c.auth.authToken # "" /\ ~event.wasClean THEN setTimeout(h1, c) ELSE h1

onerror2(h) ==
  [h EXCEPT !.error = "WebSocket connection error", !.isConnected = FALSE]

sendMessage2(h, content) ==
  IF h.ws = 0 \/ h.sockets[h.ws].readyState # "OPEN"
  THEN [h EXCEPT !.error = "WebSocket is not connected"]
  ELSE IF ~HasIdentity(h.auth)
  THEN [h EXCEPT !.error = "Authentication required to send messages"]
  ELSE [h EXCEPT !.sockets[h.ws].frames =
                    Append(@, [type |-> "message", content |-> content])]

\* ---- the events of the hook ----
ServerIdle ==
  UNCHANGED <<ws, clients, ipConnections, userMessageCounts, messageQueue, batchTimeout,
              healthCheckInterval, messageHistory, storage, typingUsers, rooms, room,
              parked, inflight, accepted, delivered, sent, lastEvent>>

\* the first render and its effects: the first definition connects, the
\* second connects when it has a token
Mount(def, a) ==
  /\ hook.def = 0
  /\ LET c == Closure(a, 0, FALSE)
         h == [hook EXCEPT !.def = def, !.mounted = TRUE, !.auth = a, !.connect = c,
                           !.last = [type |-> "mount"]]
     IN hook' = IF def = 1 THEN connect(h, c)
                ELSE IF a.authToken # "" THEN connect2(h, c)
                ELSE h
  /\ UNCHANGED now
  /\ ServerIdle

\* the identity changes: connect is made anew and the effects that depend on
\* it run again, after the cleanup of their last run
AuthChange(a) ==
  /\ hook.mounted
  /\ a # hook.auth
  /\ Len(hook.sockets) < MaxClientSockets
  /\ LET c == Closure(a, hook.ws, hook.hasRequestedHistory)
         h == [hook EXCEPT !.auth = a, !.connect = c,
                           !.historyRequests =
                              IF a.authToken # hook.auth.authToken THEN 0 ELSE @,
                           !.last = [type |-> "auth"]]
     IN hook' =
          IF hook.def = 1 THEN connect(cleanup(h), c)
          ELSE LET h1 == [clearTimeout(h) EXCEPT
                            !.hasRequestedHistory =
                               IF a.authToken # hook.auth.authToken THEN FALSE ELSE @]
               IN IF a.authToken # "" THEN connect2(h1, c) ELSE h1
  /\ UNCHANGED now
  /\ ServerIdle

\* the cleanups of the effects: the second definition closes the socket its
\* first render saw, which is none
Unmount ==
  /\ hook.mounted
  /\ LET h == [hook EXCEPT !.mounted = FALSE, !.last = [type |-> "unmount"]]
     IN hook' = IF hook.def = 1 THEN cleanup(h) ELSE clearTimeout(h)
  /\ UNCHANGED now
  /\ ServerIdle

\* the connection of socket i is established
SocketOpen(i) ==
  /\ i \in 1..Len(hook.sockets)
  /\ hook.sockets[i].readyState = "CONNECTING"
  /\ LET h == [hook EXCEPT !.sockets[i].readyState = "OPEN",
                           !.last = [type |-> "open", sock |-> i,
                                     handled |-> hook.sockets[i].handlers]]
     IN hook' = IF ~hook.sockets[i].handlers THEN h
                ELSE IF hook.def = 1 THEN onopen(h, i)
                ELSE onopen2(h, i)
  /\ UNCHANGED now
  /\ ServerIdle

\* the connection of socket i ends: readyState becomes CLOSED, then the error
\* event is fired if the connection failed, then the close event
SocketClose(i, event) ==
  /\ i \in 1..Len(hook.sockets)
  /\ event \in CloseKinds(hook.sockets[i].readyState)
  /\ LET h == [hook EXCEPT !.sockets[i].readyState = "CLOSED",
                           !.last = [type |-> "close", sock |-> i, event |-> event,
                                     current |-> (i = hook.ws),
                                     handled |-> hook.sockets[i].handlers]]
         h1 == IF ~hook.sockets[i].handlers THEN h
               ELSE IF hook.def = 1
               THEN onclose(IF event.wasClean THEN h ELSE onerror(h), i, event)
               ELSE onclose2(IF event.wasClean THEN h ELSE onerror2(h), i, event)
     IN hook' = [h1 EXCEPT !.sockets[i] = ClosedSocket]
  /\ UNCHANGED now
  /\ ServerIdle

\* a message frame arrives on socket i
SocketMessage(i) ==
  /\ i \in 1..Len(hook.sockets)
  /\ hook.sockets[i].readyState = "OPEN"
  /\ hook.sockets[i].handlers
  /\ Len(hook.messages) < MaxClientMessages
  /\ hook' = [hook EXCEPT !.messages = Append(@, Hello),
                          !.last = [type |-> "message", sock |-> i]]
  /\ UNCHANGED now
  /\ ServerIdle

\* the reconnect timer that is due first fires
TimerFires(t) ==
  /\ t \in hook.timers
  /\ \A u \in hook.timers : t.due <= u.due
  /\ Len(hook.sockets) < MaxClientSockets
  /\ now' = IF t.due > now THEN t.due ELSE now
  /\ LET h == [hook EXCEPT !.timers = @ \ {t},
                           !.last = [type |-> "timer", id |-> t.id, due |-> t.due]]
     IN hook' = IF hook.def = 1
                THEN connect([h EXCEPT !.reconnectTimeoutRef = 0], t.closure)
                ELSE connect2(h, t.closure)
  /\ ServerIdle

\* the user sends a message
SendMessage(content) ==
  /\ hook.mounted
  /\ \A i \in 1..Len(hook.sockets) :
       Cardinality({k \in 1..Len(hook.sockets[i].frames) :
                      hook.sockets[i].frames[k].type = "message"}) < MaxClientMessages
  /\ LET h == [hook EXCEPT !.last = [type |-> "send",
                                     open |-> (hook.ws # 0
                                               /\ hook.sockets[hook.ws].readyState = "OPEN")]]
     IN hook' = IF hook.def = 1 THEN sendMessage(h, content) ELSE sendMessage2(h, content)
  /\ UNCHANGED now
  /\ ServerIdle

\* ------------------------------------------------------------------------
\* Sanitizer
\* ------------------------------------------------------------------------
\* a text is sanitized, and validated as the message of a user, and the
\* outcome is sanitized and validated once more
sanitizeAgain(input, user) ==
  /\ lastEvent' = [type |-> "sanitize", input |-> input, user |-> user,
                   once |-> sanitizeInput(input),
                   twice |-> sanitizeInput(sanitizeInput(input)),
                   error |-> validateMessage(input, user),
                   again |-> validateMessage(sanitizeInput(input), sanitizeInput(user))]
  /\ UNCHANGED <<now, ws, clients, ipConnections, userMessageCounts, messageQueue,
                 batchTimeout, healthCheckInterval, messageHistory, storage, typingUsers,
                 rooms, room, parked, hook, inflight, accepted, delivered, sent>>

\* a message and a user are handed to validateMessage
validateLengths(message, user) ==
  /\ lastEvent' = [type |-> "validate", message |-> message, user |-> user,
                   error |-> validateMessage(message, user)]
  /\ UNCHANGED <<now, ws, clients, ipConnections, userMessageCounts, messageQueue,
                 batchTimeout, healthCheckInterval, messageHistory, storage, typingUsers,
                 rooms, room, parked, hook, inflight, accepted, delivered, sent>>

\* ------------------------------------------------------------------------
\* Specifications
\* ------------------------------------------------------------------------
\* the bounds on the users: the number of messages, the number of suspended
\* handlers, no message from maxTime on, and (paced) a user who waits for the
\* flush of the previous message before sending the next
FrameAllowed(f, maxAccepted, paced, maxTime) ==
  f.type = "message" => /\ Len(accepted) < maxAccepted
                        /\ now < maxTime
                        /\ Cardinality(inflight) < MaxInflight
                        /\ paced => batchTimeout = Null

\* the events of the actor of the current room, and the passing of time; the
\* fields of another actor are out of reach of the methods of this one
Step(sockets, frames, upgrades, headers, maxAccepted, paced, maxTime) ==
  /\ \/ \E s \in sockets, upgrade \in upgrades, header \in headers : fetch(s, upgrade, header)
     \/ \E s \in sockets, f \in frames : FrameAllowed(f, maxAccepted, paced, maxTime) /\ webSocketMessage(s, f)
     \/ \E k \in inflight, ok \in BOOLEAN : updateRoomActivityDone(k, ok)
     \/ \E s \in sockets : webSocketClose(s)
     \/ \E s \in sockets : webSocketError(s)
     \/ flushBatch
     \/ healthCheck
     \/ Advance(maxTime)
  /\ UNCHANGED <<room, parked, hook>>

\* a chat: messages with and without markup and history requests, over two
\* batch windows
Next == Step(1..MaxConnSockets, ChatFrames, {TRUE}, {""}, MaxAccepted, FALSE, MaxTime)
Spec == Init /\ [][Next]_vars

\* the chat with timers that fire: the callbacks of setTimeout and
\* setInterval are run when they are due, and time does not stand still
\* while a timer is armed
SpecFlush ==
  /\ Init
  /\ [][Next]_vars
  /\ WF_vars(flushBatch /\ UNCHANGED <<room, parked, hook>>)
  /\ WF_vars(healthCheck /\ UNCHANGED <<room, parked, hook>>)
  /\ WF_vars(Advance(MaxTime) /\ UNCHANGED <<room, parked, hook>>)

\* several connections sending messages at the same time, over two batch
\* windows
NextOrder == Step(Sockets, OrderFrames, {TRUE}, {""}, MaxAccepted, FALSE, MaxTime)
SpecOrder == Init /\ [][NextOrder]_vars

\* connections coming and going, with and without the address header
NextConn == Step(1..MaxConnSockets, ConnFrames, BOOLEAN, IPHeaders, 1, FALSE, MaxConnTime)
SpecConn == Init /\ [][NextConn]_vars

\* one connection over several health checks
NextHealth == Step({1}, HealthFrames, {TRUE}, {""}, 1, FALSE, MaxHealthTime)
SpecHealth == Init /\ [][NextHealth]_vars

\* one connection sending many messages, one per batch window, over more than
\* a rate window
NextRate == Step({1}, RateFrames, {TRUE}, {""}, MaxRateAccepted, TRUE, MaxRateTime)
SpecRate == Init /\ [][NextRate]_vars

\* a connection that authenticates, well or badly, before and after it
\* sends a message
NextLogin == Step(1..MaxConnSockets, LoginFrames, {TRUE}, {""}, 1, FALSE, MaxTime)
SpecLogin == Init /\ [][NextLogin]_vars

\* tokens issued, altered and presented over a day and two seconds
NextToken ==
  \/ \E userId \in UserIds, username \in TokenNames : handleLogin(userId, username)
  \/ \E kind \in Alterations : presentToken(kind)
  \/ TokenClock
SpecToken == Init /\ [][NextToken]_vars

\* connections that send frames outside the protocol, type and send a message
NextProtocol == Step(Sockets, ProtocolFrames, {TRUE}, {""}, 1, FALSE, MaxTime)
SpecProtocol == Init /\ [][NextProtocol]_vars

\* a connection that authenticates and goes on sending frames, next to a
\* connection that is refused and sends a message
NextSession ==
  \/ Step({MaxSockets}, SessionFrames, {TRUE}, {""}, 1, FALSE, MaxTime)
  \/ Step(1..MaxConnSockets, PeerFrames, {TRUE}, {""}, 1, FALSE, MaxTime)
SpecSession == Init /\ [][NextSession]_vars

\* two rooms, each with a connection of its own user sending a message
NextRooms ==
  \/ Step(1..MaxConnSockets, RoomFrames(room), {TRUE}, {""}, 1, FALSE, MaxTime)
  \/ \E r \in RoomIds : RunActor(r)
SpecRooms == Init /\ [][NextRooms]_vars

\* the hook, in either definition, from its mount on: identities that come
\* and go, sockets that open and close, timers and messages
NextClient ==
  \/ \E def \in {1, 2}, a \in Identities : Mount(def, a)
  \/ \E a \in Identities : AuthChange(a)
  \/ Unmount
  \/ \E i \in 1..MaxClientSockets : SocketOpen(i)
  \/ \E i \in 1..MaxClientSockets :
       \E event \in CloseKinds("CONNECTING") \cup CloseKinds("OPEN") \cup CloseKinds("CLOSING") :
         SocketClose(i, event)
  \/ \E i \in 1..MaxClientSockets : SocketMessage(i)
  \/ \E t \in hook.timers : TimerFires(t)
  \/ SendMessage(Hello)
SpecClient == Init /\ [][NextClient]_vars

\* a room with one connection whose instance is discarded and constructed
\* again, with the connection attached or not, before and after messages
NextEvict ==
  \/ Step(1..MaxConnSockets, OrderFrames, {TRUE}, {""}, MaxAccepted, FALSE, MaxTime)
  \/ constructor
SpecEvict == Init /\ [][NextEvict]_vars

\* a user who fills the rate window at once and goes on sending, after the
\* message of another user and next to a connection that only listens
NextReject ==
  \/ Step({1}, RejectFrames, {TRUE}, {""}, MaxRejectAccepted, FALSE, MaxRejectTime)
  \/ Step({1}, OtherUserFrames, {TRUE}, {""}, MaxOtherAccepted, FALSE, MaxRejectTime)
  \/ Step({MaxSockets}, {}, {TRUE}, {""}, MaxOtherAccepted, FALSE, MaxRejectTime)
SpecReject == Init /\ [][NextReject]_vars

\* two users of one connection: the first fills the rate window at once
\* after a message of the second, and sends again, one message per batch
\* window, when the rate window has passed
NextBudget ==
  \/ Step({1}, RateFrames, {TRUE}, {""}, MaxRejectAccepted, FALSE, MaxRejectTime)
  \/ Step({1}, OtherUserFrames, {TRUE}, {""}, MaxOtherAccepted, FALSE, MaxRejectTime)
  \/ /\ now > RATE_WINDOW
     /\ Step({1}, RateFrames, {TRUE}, {""}, MaxRateAccepted, TRUE, MaxBudgetTime)
  \/ Advance(MaxBudgetTime) /\ UNCHANGED <<room, parked, hook>>
SpecBudget == Init /\ [][NextBudget]_vars

\* texts of every shape given to the sanitizer, one text in a behaviour
NextSanitize ==
  /\ lastEvent.type = "init"
  /\ \E input \in InputTexts, user \in {Alice} : sanitizeAgain(input, user)
SpecSanitize == Init /\ [][NextSanitize]_vars

\* messages and users of lengths around the limits, one pair in a behaviour
NextValidate ==
  /\ lastEvent.type = "init"
  /\ \E n \in LengthsNear(MAX_MESSAGE_LENGTH), m \in LengthsNear(MAX_USERNAME_LENGTH),
        cs \in TextShapes, us \in TextShapes :
       validateLengths(TextOf(n, cs), TextOf(m, us))
SpecValidate == Init /\ [][NextValidate]_vars

\* ------------------------------------------------------------------------
\* Properties
\* ------------------------------------------------------------------------
NotClosed(ip) == {s \in Sockets : ws[s].state \in {"open", "errored", "closing"} /\ ws[s].ip = ip}

IsMessageEvent(e) == e.type = "frame" /\ e.frame.type = "message"
FrameContent(f) == JsOrText(f.content, f.message)
FrameUser(f) == JsOrText(f.username, f.user)

IsClean(m) == sanitizeInput(m.message) = m.message /\ sanitizeInput(m.user) = m.user
AllClean(q) == \A i \in 1..Len(q) : IsClean(q[i])

\* C1: the messages of all message_batch broadcasts so far, followed by the
\* messages still queued, are exactly the accepted messages in the order of
\* their acceptance - also while handlers are suspended at updateRoomActivity.
C1_BatchOrder == delivered \o messageQueue = accepted

\* two messages of two connections were broadcast while both handlers were
\* still suspended
C1_Witness ==
  /\ Len(delivered) >= 2
  /\ \E k1, k2 \in inflight :
       k1.sock # k2.sock /\ k1.id = delivered[1].id /\ k2.id = delivered[2].id

\* C2 (as claimed): every message sent in a message_batch frame is in the
\* durable storage of the room.
C2_PersistBeforeBroadcast ==
  \A x \in sent :
    x.frame.type = "message_batch" =>
      \A i \in 1..Len(x.frame.messages) :
        \E j \in 1..Len(storage) : storage[j] = x.frame.messages[i]

AcceptedInWindow(user, start) ==
  Cardinality({i \in 1..Len(accepted) :
                 accepted[i].user = user /\ accepted[i].timestamp >= start})

\* C3: a valid message of a user who has RATE_LIMIT accepted messages since the
\* start of the current window, arriving at most RATE_WINDOW after that start,
\* is answered with the rate limit error and is not queued; a valid message
\* arriving more than RATE_WINDOW after the window start is accepted and
\* starts a new window with a count of one.
C3_RateLimit ==
  [][(now' = now /\ IsMessageEvent(lastEvent')
        /\ lastEvent'.outcome \in {"accepted", "rate_limited"})
     => LET s == lastEvent'.sock
            user == FrameUser(lastEvent'.frame)
            start == userMessageCounts[user].lastReset
        IN /\ (/\ start # Undef
               /\ now - start <= RATE_WINDOW
               /\ AcceptedInWindow(user, start) >= RATE_LIMIT)
              => /\ lastEvent'.outcome = "rate_limited"
                 /\ sent' = {[to |-> s, frame |-> ErrorFrame("Message rate limit exceeded")]}
                 /\ messageQueue' = messageQueue
                 /\ accepted' = accepted
           /\ (start # Undef /\ now - start > RATE_WINDOW)
              => /\ lastEvent'.outcome = "accepted"
                 /\ userMessageCounts'[user] = [count |-> 1, lastReset |-> now]
                 /\ Len(messageQueue') = Len(messageQueue) + 1
    ]_vars

\* the eleventh message of a window has been refused
C3_Witness ==
  /\ IsMessageEvent(lastEvent)
  /\ lastEvent.outcome = "rate_limited"
  /\ AcceptedInWindow(Alice, userMessageCounts[Alice].lastReset) = RATE_LIMIT

\* C4 (as claimed): the stored count of every address is the number of its
\* connections that were accepted and not closed.
C4_IPCountsMatchLive ==
  \A ip \in IPKeys : ipConnections[ip] = Cardinality(NotClosed(ip))

\* C5 (as claimed): an upgrade is refused exactly when its address already has
\* 20 live connections.
C5_RefusedIffAtCap ==
  (lastEvent.type = "fetch" /\ lastEvent.status # 400)
    => LET before == Cardinality(NotClosed(lastEvent.ip))
                       - (IF lastEvent.status = 101 THEN 1 ELSE 0)
       IN lastEvent.status = 429 <=> before >= 20

\* C6 (as claimed): the first upgrade of an address after the close of one of
\* its connections is admitted.
C6_CloseReleasesSlot ==
  [][(/\ lastEvent.type = "close"
      /\ lastEvent'.type = "fetch"
      /\ lastEvent'.ip = lastEvent.ip
      /\ lastEvent'.status # 400)
     => lastEvent'.status = 101]_vars

\* C7 (as claimed): a connection that never sent a ping has received a ping at
\* each health check but possibly its first, at most MAX_RETRY_ATTEMPTS in
\* all, and is closed by the health check that follows the last ping.
C7_SilentConnectionEvicted ==
  \A s \in Sockets :
    (ws[s].state = "open" /\ ws[s].lastPing = Undef)
      => /\ ws[s].pings >= ws[s].ticks - 1
         /\ ws[s].pings <= MAX_RETRY_ATTEMPTS
         /\ ws[s].ticks <= MAX_RETRY_ATTEMPTS + 1

HasMarkup(f) ==
  /\ FrameContent(f) # <<>>
  /\ FrameUser(f) # <<>>
  /\ \/ sanitizeInput(FrameContent(f)) # FrameContent(f)
     \/ sanitizeInput(FrameUser(f)) # FrameUser(f)

\* C8: a message frame whose content or user differs from its sanitized form
\* is answered with one error frame to its sender, and no such message is
\* ever among the accepted, queued, broadcast or stored messages.
C8_MarkupRejected ==
  /\ (IsMessageEvent(lastEvent) /\ HasMarkup(lastEvent.frame))
       => /\ lastEvent.outcome = "invalid"
          /\ sent = {[to |-> lastEvent.sock,
                      frame |-> ErrorFrame("Invalid characters detected")]}
  /\ AllClean(accepted)
  /\ AllClean(messageQueue)
  /\ AllClean(delivered)
  /\ AllClean(storage)

\* a message with markup was refused in a room that has broadcast a message
C8_Witness ==
  /\ IsMessageEvent(lastEvent)
  /\ HasMarkup(lastEvent.frame)
  /\ lastEvent.outcome = "invalid"
  /\ Len(delivered) >= 1

\* C9 (as claimed): a get_history frame is answered with a message_history
\* frame that holds every message accepted before.
C9_HistoryRoundTrip ==
  (lastEvent.type = "frame" /\ lastEvent.frame.type = "get_history" /\ Len(accepted) >= 1)
    => \E x \in sent :
         /\ x.to = lastEvent.sock
         /\ x.frame.type = "message_history"
         /\ \A i \in 1..Len(accepted) :
              \E j \in 1..Len(x.frame.messages) : x.frame.messages[j] = accepted[i]

LastN(q, n) == IF Len(q) <= n THEN q ELSE SubSeq(q, Len(q) - n + 1, Len(q))

\* C10 (as claimed): a connection admitted after a flush is sent a history
\* snapshot with the last MAX_HISTORY accepted messages.
C10_SnapshotOnAccept ==
  (lastEvent.type = "fetch" /\ lastEvent.status = 101 /\ Len(delivered) >= 1)
    => \E x \in sent :
         /\ x.to = lastEvent.sock
         /\ x.frame.type = "message_history"
         /\ x.frame.messages = LastN(accepted, MAX_HISTORY)

\* C11 (as claimed): every connection_status and connection_count frame
\* carries the number of open connections of the room, and after an admitted
\* upgrade and after a close every open connection is sent the count.
C11_CountIsLive ==
  /\ \A x \in sent :
       /\ x.frame.type = "connection_status"
            => x.frame.connectionCount = Cardinality(Live(ws))
       /\ x.frame.type = "connection_count"
            => x.frame.count = Cardinality(Live(ws))
  /\ ((lastEvent.type = "fetch" /\ lastEvent.status = 101) \/ lastEvent.type = "close")
       => \A s \in Live(ws) :
            \E x \in sent : x.to = s /\ x.frame.type = "connection_count"

\* the times at which the tokens of the clients were issued
IssueTimes == {0, -(TOKEN_LIFETIME + 1) * 1000}

\* the token of an auth frame was issued by the server for exactly the user
\* id and the user name of the frame, and has not expired at time t
Genuine(f, t) ==
  \E t0 \in IssueTimes :
    /\ f.authToken = generateToken(f.userId, f.username, t0)
    /\ t \div 1000 <= (t0 \div 1000) + TOKEN_LIFETIME

IsAuthEvent(e) == e.type = "frame" /\ e.frame.type = "auth"

\* C12: an auth frame is answered with auth_success, and the connection is
\* marked with the user id, exactly when its token was issued for the user id
\* and user name of the frame and has not expired; every other auth frame is
\* answered with one error frame and leaves the mark of the connection alone.
C12_AuthSuccessIffGenuine ==
  [][(now' = now /\ IsAuthEvent(lastEvent'))
     => LET f == lastEvent'.frame
            s == lastEvent'.sock
        IN IF Genuine(f, now)
           THEN /\ lastEvent'.outcome = "auth_success"
                /\ sent' = {[to |-> s, frame |-> [type |-> "auth_success",
                                                  username |-> f.username]]}
                /\ ws'[s].clientIP = f.userId
           ELSE /\ lastEvent'.outcome = "auth_error"
                /\ sent' = {[to |-> s, frame |-> ErrorFrame("Invalid authentication")]}
                /\ ws'[s].clientIP = ws[s].clientIP
    ]_vars

\* a connection has been answered with auth_success and carries the user id
C12_Witness ==
  /\ IsAuthEvent(lastEvent)
  /\ lastEvent.outcome = "auth_success"
  /\ ws[lastEvent.sock].clientIP = lastEvent.frame.userId
  /\ \E x \in sent : x.frame.type = "auth_success"

\* C13: an auth frame whose token is not genuine leaves its connection open
\* with the mark it had, and leaves the connection set, the address counts,
\* the rate state, the queue and the batch timer unchanged; a genuine auth
\* frame on a connection that was refused before is answered with
\* auth_success.
C13_FailedAuthKeepsConnection ==
  /\ [][(now' = now /\ IsAuthEvent(lastEvent') /\ ~Genuine(lastEvent'.frame, now))
        => LET s == lastEvent'.sock
           IN /\ ws'[s].state = "open"
              /\ ws'[s].clientIP = ws[s].clientIP
              /\ \A o \in Sockets \ {s} : ws'[o] = ws[o]
              /\ UNCHANGED <<clients, ipConnections, userMessageCounts, messageQueue,
                             batchTimeout, healthCheckInterval, inflight, accepted,
                             delivered>>
       ]_vars
  /\ [][(now' = now /\ IsAuthEvent(lastEvent') /\ Genuine(lastEvent'.frame, now)
           /\ ws[lastEvent'.sock].failedAuth)
        => /\ lastEvent'.outcome = "auth_success"
           /\ ws'[lastEvent'.sock].state = "open"
           /\ ws'[lastEvent'.sock].clientIP = lastEvent'.frame.userId
       ]_vars

\* a connection that was refused, and was not authenticated then, has been
\* answered with auth_success
C13_Witness ==
  /\ IsAuthEvent(lastEvent)
  /\ lastEvent.outcome = "auth_success"
  /\ ws[lastEvent.sock].state = "open"
  /\ ws[lastEvent.sock].failedAuth
  /\ ws[lastEvent.sock].clientIP = lastEvent.frame.userId

IsVerifyEvent(e) == e.type = "verify"
Identity(e) == [valid |-> TRUE, userId |-> e.userId, username |-> e.username]

C16_FailedStoreNotBroadcast ==
  [][(lastEvent'.type = "activity" /\ ~lastEvent'.ok /\ inflight' # inflight)
     => \A k \in inflight \ inflight' :
          /\ \A i \in 1..Len(delivered') : delivered'[i].id # k.id
          /\ \A i \in 1..Len(messageQueue') : messageQueue'[i].id # k.id
    ]_vars

\* C17: while messages are queued the batch timer is armed for BATCH_DELAY
\* after the first of them was queued and that time has not passed; and every
\* accepted message is eventually broadcast in a batch.
C17_FlushWithinWindow ==
  /\ [](messageQueue # <<>>
          => /\ batchTimeout = messageQueue[1].timestamp + BATCH_DELAY
             /\ now <= batchTimeout)
  /\ \A n \in 1..(MaxAccepted + 1) : (Len(accepted) >= n) ~> (Len(delivered) >= n)

\* the batch of a message accepted in the second window has been broadcast
\* BATCH_DELAY after the message was queued
C17_Witness ==
  /\ lastEvent.type = "flush"
  /\ messageQueue = <<>>
  /\ batchTimeout = Null
  /\ Len(delivered) >= 2
  /\ delivered[Len(delivered)].timestamp > 0
  /\ now = delivered[Len(delivered)].timestamp + BATCH_DELAY

\* C18 (as claimed): the message_batch frames of a flush go to exactly the
\* connections that are open when the batch timer fires.
C18_FlushToAttached ==
  lastEvent.type = "flush"
    => /\ {x.to : x \in sent} = Live(ws)
       /\ \A x \in sent : x.frame.type = "message_batch"

\* C19 (as claimed): once the activity update of a message has succeeded, the
\* lastActivity of the room's record is at least the timestamp of every
\* message accepted so far.
C19_LastActivityFollowsMessages ==
  (lastEvent.type = "activity" /\ lastEvent.ok)
    => \A i \in 1..Len(accepted) : rooms[RoomName] >= accepted[i].timestamp

\* the types webSocketMessage has a branch for
KnownTypes == {"auth", "ping", "typing", "message"}

\* a frame that is no text, no JSON, or of a type outside the protocol
IsDropped(f) == f.type \in {"<binary>", "<malformed>"} \/ f.type \notin KnownTypes

\* C20: a binary frame, a frame that is no JSON and a frame of an unknown type
\* leave the connection open and change nothing of the room - connections,
\* address counts, rate state, queue, batch timer, suspended handlers - and
\* no frame is sent to any connection but, at most, an error frame to the
\* sender.
C20_BadFrameDropped ==
  [][(now' = now /\ lastEvent'.type = "frame" /\ IsDropped(lastEvent'.frame))
     => LET s == lastEvent'.sock
        IN /\ ws[s].state = "open"
           /\ UNCHANGED <<ws, clients, ipConnections, userMessageCounts, messageQueue,
                          batchTimeout, healthCheckInterval, typingUsers, rooms,
                          messageHistory, storage, inflight, accepted, delivered>>
           /\ \A x \in sent' : x.to = s /\ x.frame.type = "error"
    ]_vars

\* a frame that is no JSON was answered to its sender alone while a message
\* was queued and another connection was open
C20_Witness ==
  /\ lastEvent.type = "frame"
  /\ lastEvent.frame.type = "<malformed>"
  /\ sent = {[to |-> lastEvent.sock, frame |-> ErrorFrame("Invalid message format")]}
  /\ ws[lastEvent.sock].state = "open"
  /\ messageQueue # <<>>
  /\ batchTimeout # Null
  /\ \E o \in Sockets \ {lastEvent.sock} : o \in Range(clients) /\ ws[o].state = "open"

\* C21: the identity a successful auth put on a connection stays on it until
\* the connection is closed: no step other than the close of that connection
\* leaves it without an identity, and only a successful auth on that
\* connection changes the identity.
C21_AuthenticatedUntilClose ==
  [][\A s \in Sockets :
       ws[s].clientIP # UndefStr =>
         /\ ws'[s].clientIP = UndefStr
              => lastEvent'.type = "close" /\ lastEvent'.sock = s
         /\ ws'[s].clientIP \notin {UndefStr, ws[s].clientIP}
              => /\ IsAuthEvent(lastEvent')
                 /\ lastEvent'.sock = s
                 /\ lastEvent'.outcome = "auth_success"
    ]_vars

\* an authenticated connection has just been refused a later auth attempt
\* while another connection is open, and is still authenticated
C21_Witness ==
  /\ IsAuthEvent(lastEvent)
  /\ lastEvent.outcome = "auth_error"
  /\ ws[lastEvent.sock].state = "open"
  /\ ws[lastEvent.sock].clientIP = "id1"
  /\ \E o \in Sockets \ {lastEvent.sock} : ws[o].state = "open"

\* C23 (as claimed): no user has more than RATE_LIMIT accepted messages whose
\* timestamps lie less than RATE_WINDOW apart.
C23_RollingWindow ==
  \A i \in 1..Len(accepted) :
    Cardinality({j \in 1..Len(accepted) :
                   /\ accepted[j].user = accepted[i].user
                   /\ accepted[j].timestamp >= accepted[i].timestamp
                   /\ accepted[j].timestamp - accepted[i].timestamp < RATE_WINDOW})
      <= RATE_LIMIT

\* C23 (amended): the window is fixed: it starts at the first message a user
\* sends more than RATE_WINDOW after the start of the previous window, the
\* stored count is the number of messages accepted since that start, it never
\* exceeds RATE_LIMIT, and each of those messages was accepted at most
\* RATE_WINDOW after the start.
C23_FixedWindow ==
  \A u \in UserTexts :
    LET e == userMessageCounts[u]
    IN e.lastReset # Undef =>
         /\ e.count <= RATE_LIMIT
         /\ e.count = AcceptedInWindow(u, e.lastReset)
         /\ \A i \in 1..Len(accepted) :
              (accepted[i].user = u /\ accepted[i].timestamp >= e.lastReset)
                => accepted[i].timestamp - e.lastReset <= RATE_WINDOW

\* a user who filled a window has started the next one and has more than
\* RATE_LIMIT accepted messages
C23_Witness ==
  /\ userMessageCounts[Alice].lastReset # Undef
  /\ userMessageCounts[Alice].lastReset > 0
  /\ userMessageCounts[Alice].count >= 1
  /\ Cardinality({i \in 1..Len(accepted) : accepted[i].user = Alice}) > RATE_LIMIT

\* C30: the health check closes no open connection, whatever number of pings
\* it has sent to it; a connection whose own last ping is at most PONG_TIMEOUT
\* old is passed over: it gets no ping and its retry count stays.
C30_ResponsiveNeverEvicted ==
  [][lastEvent'.type = "health"
       => \A s \in Sockets :
            ws[s].state = "open" =>
              /\ ws'[s].state = "open"
              /\ (IsNumber(ws[s].lastPing) /\ now - ws[s].lastPing <= PONG_TIMEOUT)
                   => /\ ws'[s].pings = ws[s].pings
                      /\ ws'[s].retryCount = ws[s].retryCount
    ]_vars

\* a connection that was sent more than MAX_RETRY_ATTEMPTS pings over as many
\* health checks has just answered with a pong and is open
C30_Witness ==
  /\ lastEvent.type = "frame"
  /\ lastEvent.frame.type = "pong"
  /\ ws[lastEvent.sock].state = "open"
  /\ ws[lastEvent.sock].pings > MAX_RETRY_ATTEMPTS
  /\ ws[lastEvent.sock].ticks > MAX_RETRY_ATTEMPTS

IsSanitizeEvent(e) == e.type = "sanitize"

\* C29: sanitizing the sanitized form of a text gives the sanitized form
\* again, and a message and user that pass validation pass it again in their
\* sanitized form.
C29_SanitizeIdempotent ==
  IsSanitizeEvent(lastEvent) =>
    /\ lastEvent.twice = lastEvent.once
    /\ lastEvent.error = "" => lastEvent.again = ""

\* a text with a tag, a character reference and blanks around it has been
\* changed by the sanitizer
C29_Witness ==
  /\ IsSanitizeEvent(lastEvent)
  /\ lastEvent.input = <<"&nbsp;", "<", "a", ">">>
  /\ lastEvent.once = <<>>
  /\ lastEvent.error # ""

UsersOf(q) == {q[i].user : i \in 1..Len(q)}

\* C22: an event of the actor of one room leaves the fields of the actors of
\* the other rooms and the rows of the other rooms unchanged, and sends only
\* to connections of its own room; the messages accepted, queued and
\* delivered in a room are those of its own connections, and the rate state
\* of a room counts the messages accepted in that room only.
C22_RoomsIsolated ==
  /\ [][lastEvent'.type # "actor"
          => /\ room' = room
             /\ parked' = parked
             /\ \A r \in RoomIds \ {room} : rooms'[r] = rooms[r]
             /\ \A x \in sent' :
                  /\ ws[x.to].state # "none" \/ ws'[x.to].state # "none"
                  /\ x.frame.type = "message_batch"
                       => UsersOf(x.frame.messages) \subseteq {RoomUser(room)}
       ]_vars
  /\ [](/\ UsersOf(accepted) \cup UsersOf(messageQueue) \cup UsersOf(delivered)
             \subseteq {RoomUser(room)}
        /\ \A u \in UserTexts :
             userMessageCounts[u].count = AcceptedInWindow(u, 0)
        /\ \A r \in DOMAIN parked :
             /\ UsersOf(parked[r].accepted) \cup UsersOf(parked[r].messageQueue)
                  \cup UsersOf(parked[r].delivered) \subseteq {RoomUser(r)}
             /\ \A u \in UserTexts \ {RoomUser(r)} :
                  parked[r].userMessageCounts[u] = NoCount)

\* the actors of both rooms have a connection and have each broadcast the
\* message of their own user
C22_Witness ==
  /\ lastEvent.type = "flush"
  /\ \E x \in sent : x.frame.type = "message_batch"
  /\ delivered # <<>>
  /\ \E s \in Sockets : ws[s].state = "open"
  /\ \A r \in DOMAIN parked :
       /\ parked[r].delivered # <<>>
       /\ \E s \in Sockets : parked[r].ws[s].state = "open"

LiveSockets(h) == {i \in 1..Len(h.sockets) : h.sockets[i].readyState \in LiveStates}

\* C24: the first definition of the hook has at most one socket that is
\* CONNECTING or OPEN, and it is the one ws.current refers to; a step that
\* makes a new socket leaves none of the earlier sockets CONNECTING or OPEN,
\* so no socket is made next to one that is open or being connected.
C24_OneLiveSocket ==
  /\ [](hook.def = 1 => /\ Cardinality(LiveSockets(hook)) <= 1
                        /\ LiveSockets(hook) \subseteq {hook.ws})
  /\ [][(hook.def = 1 /\ Len(hook'.sockets) > Len(hook.sockets))
          => /\ Len(hook'.sockets) = Len(hook.sockets) + 1
             /\ LiveSockets(hook') = {Len(hook'.sockets)}
       ]_vars

\* the identity changed while the first socket was being connected: that
\* socket is closing and the second one is being connected
C24_Witness ==
  /\ hook.def = 1
  /\ hook.last.type = "auth"
  /\ Len(hook.sockets) = 2
  /\ hook.sockets[1].readyState = "CLOSING"
  /\ hook.sockets[2].readyState = "CONNECTING"

\* C25 (as claimed): at most one reconnect timer is pending; a close of the
\* current socket with a code other than 1000 leaves exactly one timer, due
\* RECONNECT_DELAY later, and a close with code 1000 schedules none; connect
\* runs when the timer is due.
C25_SingleReconnect ==
  /\ [](Cardinality(hook.timers) <= 1)
  /\ [][(hook'.last.type = "close" /\ hook'.last.current)
          => IF hook'.last.event.code # 1000
             THEN \E t \in hook'.timers :
                    /\ hook'.timers = {t}
                    /\ t.due = now + RECONNECT_DELAY
             ELSE hook'.timers = hook.timers
       ]_vars
  /\ [][hook'.last.type = "timer"
          => /\ now' = hook'.last.due
             /\ Len(hook'.sockets) = Len(hook.sockets) + 1
       ]_vars

\* C26 (as claimed): a socket that has opened while the hook had a full
\* identity was sent an auth frame and then a get_history frame of that
\* identity before anything else; one that opened while the hook had no
\* identity was sent neither.
C26_AuthThenHistoryOnOpen ==
  \A i \in 1..Len(hook.sockets) :
    LET sock == hook.sockets[i]
    IN sock.opened =>
         /\ HasIdentity(sock.available)
              => /\ Len(sock.frames) >= 2
                 /\ sock.frames[1] = AuthFrameOf(sock.available)
                 /\ sock.frames[2] = HistoryFrameOf(sock.available)
         /\ sock.available = NoIdentity
              => \A k \in 1..Len(sock.frames) :
                   sock.frames[k].type \notin {"auth", "get_history"}

\* C27 (as claimed): no more than one get_history frame has been sent since
\* the token of the hook last changed.
C27_OneHistoryRequestPerToken ==
  hook.historyRequests <= 1

\* C28: sendMessage called while there is no socket, or the socket is not
\* open, sets the error and leaves everything else of the hook as it was: no
\* frame is sent, and the message list, the sockets, the connection state
\* and the timers are unchanged.
C28_SendWhenNotOpen ==
  [][(hook'.last.type = "send" /\ ~hook'.last.open)
       => /\ hook'.error # ""
          /\ hook' = [hook EXCEPT !.error = hook'.error, !.last = hook'.last]
          /\ now' = now
    ]_vars

\* a message was sent while the socket was closed and a reconnect was
\* pending, with a message in the list
C28_Witness ==
  /\ hook.last.type = "send"
  /\ ~hook.last.open
  /\ hook.error # ""
  /\ hook.messages # <<>>
  /\ hook.timers # {}

\* the user name of each user id in the users table
UserNameOf(userId) == IF userId = "id1" THEN Alice ELSE Bob

\* C31 (as claimed): a message is accepted only from a connection that was
\* answered with auth_success, and only under the user name of the identity
\* that connection authenticated as.
C31_AcceptedOnlyFromAuthenticated ==
  (IsMessageEvent(lastEvent) /\ lastEvent.outcome = "accepted")
    => /\ ws[lastEvent.sock].clientIP # UndefStr
       /\ FrameUser(lastEvent.frame) = UserNameOf(ws[lastEvent.sock].clientIP)

\* C32 (as claimed): a new instance constructed while connections are
\* attached counts each of them under its address, and every batch that is
\* flushed goes to every attached connection.
C32_ServedAfterEviction ==
  /\ [][lastEvent'.type = "constructor"
          => \A ip \in IPKeys :
               ipConnections'[ip] >= Cardinality({s \in Live(ws') : ws'[s].ip = ip})
       ]_vars
  /\ [](lastEvent.type = "flush"
          => \A s \in Live(ws) :
               \E x \in sent : x.to = s /\ x.frame.type = "message_batch")

\* C33 (as claimed): the close of a connection takes that connection, and no
\* other, out of the connection set, and no frame is sent to a connection
\* that was closed.
C33_CloseRemovesExactlyThat ==
  /\ [][lastEvent'.type = "close"
          => /\ lastEvent'.sock \notin Range(clients')
             /\ \A o \in Range(clients) \ {lastEvent'.sock} : o \in Range(clients')
       ]_vars
  /\ [](\A x \in sent : ws[x.to].state # "none")

\* C34: a message frame that is not accepted - for want of content or user,
\* for its length, for markup, or because its user is at the rate limit - is
\* answered with exactly one error frame, sent to its sender only, and
\* leaves the connection open and the sockets, the connection set, the
\* address counts, the rate state of every user, the queue, the batch timer
\* and the accepted and delivered messages unchanged.
C34_RejectionChangesNothing ==
  [][(now' = now /\ IsMessageEvent(lastEvent') /\ lastEvent'.outcome # "accepted")
     => LET s == lastEvent'.sock
        IN /\ lastEvent'.outcome \in {"invalid", "rate_limited"}
           /\ Cardinality(sent') = 1
           /\ \A x \in sent' : x.to = s /\ x.frame.type = "error"
           /\ ws'[s].state = "open"
           /\ UNCHANGED <<ws, clients, ipConnections, userMessageCounts, messageQueue,
                          batchTimeout, healthCheckInterval, inflight, accepted,
                          delivered>>
    ]_vars

\* a user at the rate limit has been refused a further message while the
\* messages of the window were queued and a second connection was the client
\* of the room; the count of the other user is one
C34_Witness ==
  /\ IsMessageEvent(lastEvent)
  /\ lastEvent.outcome = "rate_limited"
  /\ sent = {[to |-> lastEvent.sock, frame |-> ErrorFrame("Message rate limit exceeded")]}
  /\ userMessageCounts[Alice].count = RATE_LIMIT
  /\ userMessageCounts[Bob].count = 1
  /\ Len(messageQueue) = RATE_LIMIT + 1
  /\ batchTimeout # Null
  /\ \E o \in Range(clients) : o # lastEvent.sock /\ ws[o].state = "open"

Occurrences(q, id) == Cardinality({i \in 1..Len(q) : q[i].id = id})

\* C35: every accepted message is either in the queue or in the messages of
\* one batch broadcast, once and in one of the two only; the queue changes
\* only by the push of the message just accepted and by the flush, and the
\* flush hands the whole queue, with the messages accepted after the timer
\* was armed, to broadcastBatch in one message_batch frame and empties it.
C35_ExactlyOneBatch ==
  /\ [](\A i \in 1..Len(accepted) :
          Occurrences(delivered, accepted[i].id)
            + Occurrences(messageQueue, accepted[i].id) = 1)
  /\ [][(now' = now /\ lastEvent'.type = "flush")
          => /\ messageQueue # <<>>
             /\ delivered' = delivered \o messageQueue
             /\ messageQueue' = <<>>
             /\ \A x \in sent' :
                  x.frame = [type |-> "message_batch", messages |-> messageQueue]
       ]_vars
  /\ [][messageQueue' # messageQueue
          => \/ now' = now /\ lastEvent'.type = "flush"
             \/ /\ IsMessageEvent(lastEvent')
                /\ lastEvent'.outcome = "accepted"
                /\ Len(accepted') = Len(accepted) + 1
                /\ messageQueue' = Append(messageQueue, accepted'[Len(accepted')])
       ]_vars
  /\ [][\A x \in sent' :
          x.frame.type = "message_batch" => lastEvent'.type = "flush"]_vars

\* a batch of two messages has been broadcast to a client, the second of
\* them accepted while the timer of the first was armed
C35_Witness ==
  /\ lastEvent.type = "flush"
  /\ Len(delivered) = 2
  /\ delivered[1].timestamp = delivered[2].timestamp
  /\ delivered = accepted
  /\ messageQueue = <<>>
  /\ \E x \in sent : x.frame = [type |-> "message_batch", messages |-> delivered]

\* C36: between events the batch timer is armed exactly when the queue is not
\* empty (one handle, so at most one timer); the timer is armed only by the
\* acceptance of a message that finds the queue empty, for BATCH_DELAY later,
\* and is left alone by every later message; it is disarmed only by its
\* callback, which sends the batch and empties the queue.
C36_TimerIffQueued ==
  /\ [](batchTimeout # Null <=> messageQueue # <<>>)
  /\ [][(batchTimeout = Null /\ batchTimeout' # Null)
          => /\ IsMessageEvent(lastEvent')
             /\ lastEvent'.outcome = "accepted"
             /\ messageQueue = <<>>
             /\ Len(messageQueue') = 1
             /\ batchTimeout' = now + BATCH_DELAY
       ]_vars
  /\ [][(batchTimeout # Null /\ batchTimeout' # batchTimeout)
          => /\ lastEvent'.type = "flush"
             /\ now >= batchTimeout
             /\ batchTimeout' = Null
             /\ messageQueue' = <<>>
             /\ sent' = broadcastBatch(clients, ws, messageQueue)
       ]_vars

\* a second message was accepted while the timer of the first was armed and
\* its handler suspended, and the timer is as the first message set it
C36_Witness ==
  /\ IsMessageEvent(lastEvent)
  /\ lastEvent.outcome = "accepted"
  /\ Len(messageQueue) = 2
  /\ batchTimeout = messageQueue[1].timestamp + BATCH_DELAY
  /\ Cardinality(inflight) = 2

\* the count a message of a user finds: 0 when the user has no entry or the
\* window of the entry has passed, the stored count otherwise
CountFound(u) ==
  LET e == userMessageCounts[u]
  IN IF e.lastReset # Undef /\ now - e.lastReset > RATE_WINDOW THEN 0 ELSE e.count

IsValidateEvent(e) == e.type = "validate"
IsPlain(text) == \A i \in 1..Len(text) : text[i] = "c"

\* C38: validateMessage refuses an empty message or user as missing; a
\* message of more than MAX_MESSAGE_LENGTH characters as too long; otherwise
\* a user of more than MAX_USERNAME_LENGTH characters as too long; these
\* answers are given whether or not the texts hold markup. A message of up to
\* MAX_MESSAGE_LENGTH and a user of up to MAX_USERNAME_LENGTH characters get
\* neither answer, and are valid when they are made of letters.
C38_LengthLimits ==
  IsValidateEvent(lastEvent) =>
    LET message == lastEvent.message
        user == lastEvent.user
        error == lastEvent.error
    IN IF Len(message) = 0 \/ Len(user) = 0
       THEN error = "Message and user are required"
       ELSE IF Len(message) > MAX_MESSAGE_LENGTH THEN error = "Message too long"
       ELSE IF Len(user) > MAX_USERNAME_LENGTH THEN error = "Username too long"
       ELSE /\ error \in {"", "Invalid characters detected"}
            /\ error = "" <=> (IsPlain(message) /\ IsPlain(user))

\* a message of exactly MAX_MESSAGE_LENGTH letters by a user of exactly
\* MAX_USERNAME_LENGTH letters has been found valid
C38_Witness ==
  /\ IsValidateEvent(lastEvent)
  /\ Len(lastEvent.message) = MAX_MESSAGE_LENGTH
  /\ Len(lastEvent.user) = MAX_USERNAME_LENGTH
  /\ lastEvent.error = ""

\* what the hook shows and keeps, apart from its sockets and the last event
HookState(h) ==
  [h EXCEPT !.sockets = <<>>, !.last = [type |-> "none"]]

\* C39: in the first definition of the hook, the cleanup of an unmount
\* leaves no socket CONNECTING or OPEN and no timer, and that of an identity
\* change leaves no timer and no socket CONNECTING or OPEN but the new one;
\* every socket other than the current one is without handlers; an open or
\* close event of a socket without handlers changes nothing but the state of
\* that socket; and once the hook is unmounted no socket is made, no timer is
\* set and nothing of its state changes.
C39_TeardownIsFinal ==
  /\ [][(hook'.def = 1 /\ hook'.last.type = "unmount" /\ hook.mounted)
          => /\ LiveSockets(hook') = {}
             /\ hook'.timers = {}
             /\ hook'.ws = 0
       ]_vars
  /\ [][(hook'.def = 1 /\ hook'.last.type = "auth" /\ hook'.auth # hook.auth)
          => /\ hook'.timers = {}
             /\ LiveSockets(hook') \subseteq {hook'.ws} \ (1..Len(hook.sockets))
       ]_vars
  /\ [](hook.def = 1
          => \A i \in 1..Len(hook.sockets) :
               i # hook.ws => ~hook.sockets[i].handlers)
  /\ [][(/\ hook'.def = 1
         /\ hook'.last.type \in {"open", "close"}
         /\ ~hook'.last.handled
         /\ hook'.sockets # hook.sockets)
          => HookState(hook') = HookState(hook)
       ]_vars
  /\ [][(hook.def = 1 /\ ~hook.mounted)
          => /\ HookState(hook') = HookState(hook)
             /\ Len(hook'.sockets) = Len(hook.sockets)
       ]_vars

\* the connection of a socket that was being connected when the hook was
\* unmounted has failed, and no reconnect is pending
C39_Witness ==
  /\ hook.def = 1
  /\ ~hook.mounted
  /\ hook.last.type = "close"
  /\ ~hook.last.handled
  /\ hook.last.event.code = 1006
  /\ hook.timers = {}
  /\ hook.reconnectTimeoutRef = 0

====
